---------------------------- MODULE Spec2Model ----------------------------
(***************************************************************************)
(* Web Access Control rule algebra of solid-client: the getters that       *)
(* compute the effective access of a grantee from an ACL dataset           *)
(* (acl/acl.ts, acl/class.ts, acl/group.ts), the setters that rewrite the  *)
(* rules of an ACL dataset for one grantee, the resolution of a            *)
(* Resource's access through its own ACL or its fallback ACL, the walk up  *)
(* the Container hierarchy that finds the fallback ACL, and the requests   *)
(* that create, save and delete a Resource's ACL.                          *)
(*                                                                         *)
(* A Thing is the set of statements about one subject.  It is modelled by  *)
(* its content: whether it has the type acl:Authorization, whether it has  *)
(* any statement that is not an ACL statement (isAclQuad), and the sets of *)
(* IRIs it has for each ACL predicate.  Subject identifiers are left out:  *)
(* a dataset is the multiset (bag) of the contents of its Things.          *)
(***************************************************************************)
EXTENDS Integers, Sequences, FiniteSets

VARIABLES
  acl,       \* the ACL dataset the rule mutator works on (AclDataset)
  prevAcl,   \* the dataset that was passed to the last setter call
  lastOp,    \* the last setter call: [name, access, group]
  calls,     \* 0: no setter called yet, 1: called once, 2: called again
  resource,  \* a Resource with its ACLs attached (WithAcl & WithResourceInfo)
  result,    \* the last getter call on `resource`: [name, group, value]
  accessList, \* the list of Access values given to internal_combineAccessModes
  server,    \* what the Pod answers for each Container and each ACL
  walk,      \* where internal_fetchFallbackAcl is: [pc, path, ...]
  requests   \* the requests sent to the Pod so far, in order

vars == <<acl, prevAcl, lastOp, calls, resource, result,
          accessList, server, walk, requests>>

\* the variables of the list combiner and of the network
netVars == <<accessList, server, walk, requests>>

----------------------------------------------------------------------------
(* Vocabulary *)

Null == "null"

\* foaf:Agent, the agent class of everyone, and another agent class
Public == "foaf:Agent"
AuthenticatedAgent == "acl:AuthenticatedAgent"
AgentClasses == {Public, AuthenticatedAgent}

\* IRIs that name agents and groups (acl:agent and acl:agentGroup share them)
Iris == {"i1", "i2"}

\* URLs of Resources: the one an ACL dataset is bound to, and others
ResourceX == "/c/"
ResourceY == "/c/r"
Urls == {ResourceX, ResourceY}

Origins == {"o1"}

Access == [read: BOOLEAN, append: BOOLEAN, write: BOOLEAN, control: BOOLEAN]

NoAccess == [read |-> FALSE, append |-> FALSE, write |-> FALSE, control |-> FALSE]

\* the value null where an AclDataset is expected
NullAcl == [internal_accessTo |-> Null, sourceIri |-> Null, things |-> << >>]

\* what a function that may return null returns: null, or a value
ReturnNull == [null |-> TRUE]
Return(value) == [null |-> FALSE, value |-> value]

----------------------------------------------------------------------------
(* Datasets as bags of Things *)

EmptyThings == << >>

\* setThing for a Thing whose subject is not in the dataset yet
addThing(things, thing) ==
  IF thing \in DOMAIN things
    THEN [things EXCEPT ![thing] = @ + 1]
    ELSE [t \in DOMAIN things \cup {thing} |->
            IF t = thing THEN 1 ELSE things[t]]

removeThing(things, thing) ==
  IF thing \notin DOMAIN things THEN things
  ELSE IF things[thing] > 1 THEN [things EXCEPT ![thing] = @ - 1]
  ELSE [t \in DOMAIN things \ {thing} |-> things[t]]

\* setThing for a Thing that replaces the Thing `old` with the same subject
setThing(things, old, new) == addThing(removeThing(things, old), new)

RECURSIVE ThingsToSeq(_)
ThingsToSeq(things) ==
  IF DOMAIN things = {} THEN << >>
  ELSE LET t == CHOOSE x \in DOMAIN things : TRUE
       IN  <<t>> \o ThingsToSeq(removeThing(things, t))

\* getThingAll: the Things of a dataset, one per subject, in a fixed order
getThingAll(aclDataset) == ThingsToSeq(aclDataset.things)

RECURSIVE SeqToThings(_)
SeqToThings(s) ==
  IF s = << >> THEN EmptyThings
  ELSE addThing(SeqToThings(Tail(s)), Head(s))

NumberOfThings(things) == Len(ThingsToSeq(things))

\* nothing is combined, no Pod is there, no walk is under way
NoModes == << >>
NoServer == << >>
NoWalk == [pc |-> "idle"]
NoRequests == << >>
NoNetwork ==
  /\ accessList = NoModes
  /\ server = NoServer
  /\ walk = NoWalk
  /\ requests = NoRequests

----------------------------------------------------------------------------
(* acl/acl.ts: the ACLs attached to a Resource *)

getSourceUrl(res) == res.sourceIri

\* hasResourceAcl that does not look at what the ACL is bound to
hasResourceAcl_AnyTarget(res) ==
  /\ res.resourceAcl # NullAcl
  /\ res.aclUrl = getSourceUrl(res.resourceAcl)

hasResourceAcl(res) ==
  /\ res.resourceAcl # NullAcl
  /\ getSourceUrl(res) = res.resourceAcl.internal_accessTo
  /\ res.aclUrl = getSourceUrl(res.resourceAcl)

getResourceAcl(res) ==
  IF ~hasResourceAcl(res) THEN ReturnNull ELSE Return(res.resourceAcl)

hasFallbackAcl(res) == res.fallbackAcl # NullAcl

getFallbackAcl(res) ==
  IF ~hasFallbackAcl(res) THEN ReturnNull ELSE Return(res.fallbackAcl)

----------------------------------------------------------------------------
(* acl/acl.ts: rule classification *)

isAclRule(thing) == thing.isAuthorization

internal_getAclRules(aclDataset) == SelectSeq(getThingAll(aclDataset), isAclRule)

appliesToResource(aclRule, res) == res \in aclRule.accessTo

internal_getResourceAclRulesForResource(aclRules, res) ==
  SelectSeq(aclRules, LAMBDA rule : appliesToResource(rule, res))

\* isDefaultForResource that takes any target of the Rule for a default
isDefaultForResource_AnyTarget(aclRule, res) ==
  \/ res \in aclRule.default
  \/ res \in aclRule.defaultForNew
  \/ res \in aclRule.accessTo

isDefaultForResource(aclRule, res) ==
  \/ res \in aclRule.default
  \/ res \in aclRule.defaultForNew

internal_getDefaultAclRulesForResource(aclRules, res) ==
  SelectSeq(aclRules, LAMBDA rule : isDefaultForResource(rule, res))

----------------------------------------------------------------------------
(* acl/acl.ts: access-mode algebra *)

\* internal_getAccess without the inference of Append from Write
internal_getAccess_NoInference(rule) ==
  [read |-> "Read" \in rule.mode,
   append |-> "Append" \in rule.mode,
   write |-> "Write" \in rule.mode,
   control |-> "Control" \in rule.mode]

internal_getAccess(rule) ==
  LET ruleAccessModes == rule.mode
      writeAccess == "Write" \in ruleAccessModes
  IN  IF writeAccess
        THEN [read |-> "Read" \in ruleAccessModes,
              append |-> TRUE,
              write |-> TRUE,
              control |-> "Control" \in ruleAccessModes]
        ELSE [read |-> "Read" \in ruleAccessModes,
              append |-> "Append" \in ruleAccessModes,
              write |-> FALSE,
              control |-> "Control" \in ruleAccessModes]

\* the reducer, taking append from the append fields alone
combineTwo_AppendOnly(accumulator, current) ==
  [read |-> accumulator.read \/ current.read,
   append |-> accumulator.append \/ current.append,
   write |-> accumulator.write \/ current.write,
   control |-> accumulator.control \/ current.control]

\* the reducer of internal_combineAccessModes
combineTwo(accumulator, current) ==
  LET writeAccess == accumulator.write \/ current.write
  IN  IF writeAccess
        THEN [read |-> accumulator.read \/ current.read,
              append |-> TRUE,
              write |-> TRUE,
              control |-> accumulator.control \/ current.control]
        ELSE [read |-> accumulator.read \/ current.read,
              append |-> accumulator.append \/ current.append,
              write |-> FALSE,
              control |-> accumulator.control \/ current.control]

RECURSIVE reduceAccess(_, _)
reduceAccess(modes, accumulator) ==
  IF modes = << >> THEN accumulator
  ELSE reduceAccess(Tail(modes), combineTwo(accumulator, Head(modes)))

internal_combineAccessModes(modes) == reduceAccess(modes, NoAccess)

\* Array.prototype.map(internal_getAccess)
mapGetAccess(rules) == [i \in 1..Len(rules) |-> internal_getAccess(rules[i])]

internal_getAclRulesForIri(aclRules, targetIri, targetType) ==
  SelectSeq(aclRules, LAMBDA rule : targetIri \in rule[targetType])

RECURSIVE accessByIriFrom(_, _, _)
accessByIriFrom(aclRules, targetType, targetIriAccess) ==
  IF aclRules = << >> THEN targetIriAccess
  ELSE LET rule == Head(aclRules)
           ruleTargetIri == rule[targetType]
           access == internal_getAccess(rule)
           updated ==
             [targetIri \in DOMAIN targetIriAccess \cup ruleTargetIri |->
                IF targetIri \notin ruleTargetIri
                  THEN targetIriAccess[targetIri]
                ELSE IF targetIri \notin DOMAIN targetIriAccess
                  THEN access
                ELSE internal_combineAccessModes(
                       <<targetIriAccess[targetIri], access>>)]
       IN  accessByIriFrom(Tail(aclRules), targetType, updated)

internal_getAccessByIri(aclRules, targetType) ==
  accessByIriFrom(aclRules, targetType, << >>)

----------------------------------------------------------------------------
(* acl/acl.ts: building rules and garbage collection *)

BlankThing ==
  [isAuthorization |-> FALSE, otherQuads |-> FALSE,
   accessTo |-> {}, default |-> {}, defaultForNew |-> {},
   agent |-> {}, agentGroup |-> {}, agentClass |-> {},
   origin |-> {}, mode |-> {}]

internal_initialiseAclRule(access) ==
  [BlankThing EXCEPT
     !.isAuthorization = TRUE,
     !.mode = (IF access.read THEN {"Read"} ELSE {})
              \cup (IF access.append /\ ~access.write THEN {"Append"} ELSE {})
              \cup (IF access.write THEN {"Write"} ELSE {})
              \cup (IF access.control THEN {"Control"} ELSE {})]

\* internal_duplicateAclRule whose copy of acl:mode skips the first IRI
internal_duplicateAclRule_SkipsMode(sourceRule) ==
  [BlankThing EXCEPT
     !.isAuthorization = TRUE,
     !.accessTo = sourceRule.accessTo,
     !.default = sourceRule.default,
     !.defaultForNew = sourceRule.defaultForNew,
     !.agent = sourceRule.agent,
     !.agentGroup = sourceRule.agentGroup,
     !.agentClass = sourceRule.agentClass,
     !.origin = sourceRule.origin,
     !.mode = IF sourceRule.mode = {} THEN {}
              ELSE sourceRule.mode
                     \ {CHOOSE first \in sourceRule.mode : TRUE}]

internal_duplicateAclRule(sourceRule) ==
  [BlankThing EXCEPT
     !.isAuthorization = TRUE,
     !.accessTo = sourceRule.accessTo,
     !.default = sourceRule.default,
     !.defaultForNew = sourceRule.defaultForNew,
     !.agent = sourceRule.agent,
     !.agentGroup = sourceRule.agentGroup,
     !.agentClass = sourceRule.agentClass,
     !.origin = sourceRule.origin,
     !.mode = sourceRule.mode]

\* isEmptyAclRule that takes an origin for someone the Rule applies to
isEmptyAclRule_OriginCounts(aclRule) ==
  IF aclRule.otherQuads THEN FALSE
  ELSE IF aclRule.accessTo = {} /\ aclRule.default = {}
          /\ aclRule.defaultForNew = {} THEN TRUE
  ELSE IF aclRule.mode = {} THEN TRUE
  ELSE IF aclRule.agent = {} /\ aclRule.agentGroup = {}
          /\ aclRule.agentClass = {} /\ aclRule.origin = {} THEN TRUE
  ELSE FALSE

isEmptyAclRule(aclRule) ==
  IF aclRule.otherQuads THEN FALSE
  ELSE IF aclRule.accessTo = {} /\ aclRule.default = {}
          /\ aclRule.defaultForNew = {} THEN TRUE
  ELSE IF aclRule.mode = {} THEN TRUE
  ELSE IF aclRule.agent = {} /\ aclRule.agentGroup = {}
          /\ aclRule.agentClass = {} THEN TRUE
  ELSE FALSE

RECURSIVE reduceRemoveThing(_, _)
reduceRemoveThing(aclRulesToRemove, things) ==
  IF aclRulesToRemove = << >> THEN things
  ELSE reduceRemoveThing(Tail(aclRulesToRemove),
                         removeThing(things, Head(aclRulesToRemove)))

internal_removeEmptyAclRules(aclDataset) ==
  LET aclRules == internal_getAclRules(aclDataset)
      aclRulesToRemove == SelectSeq(aclRules, isEmptyAclRule)
  IN  [aclDataset EXCEPT
         !.things = reduceRemoveThing(aclRulesToRemove, aclDataset.things)]

----------------------------------------------------------------------------
(* acl/class.ts *)

appliesToClass(aclRule, agentClass) == agentClass \in aclRule.agentClass

getClassAclRulesForClass(aclRules, agentClass) ==
  SelectSeq(aclRules, LAMBDA rule : appliesToClass(rule, agentClass))

getPublicResourceAccess(aclDataset) ==
  LET allRules == internal_getAclRules(aclDataset)
      resourceRules == internal_getResourceAclRulesForResource(
                         allRules, aclDataset.internal_accessTo)
      publicResourceRules == getClassAclRulesForClass(resourceRules, Public)
      publicAccessModes == mapGetAccess(publicResourceRules)
  IN  internal_combineAccessModes(publicAccessModes)

getPublicDefaultAccess(aclDataset) ==
  LET allRules == internal_getAclRules(aclDataset)
      resourceRules == internal_getDefaultAclRulesForResource(
                         allRules, aclDataset.internal_accessTo)
      publicResourceRules == getClassAclRulesForClass(resourceRules, Public)
      publicAccessModes == mapGetAccess(publicResourceRules)
  IN  internal_combineAccessModes(publicAccessModes)

\* getPublicAccess that looks at the fallback ACL first
getPublicAccess_FallbackFirst(resourceInfo) ==
  IF hasFallbackAcl(resourceInfo)
    THEN Return(getPublicDefaultAccess(resourceInfo.fallbackAcl))
  ELSE IF hasResourceAcl(resourceInfo)
    THEN Return(getPublicResourceAccess(resourceInfo.resourceAcl))
  ELSE ReturnNull

getPublicAccess(resourceInfo) ==
  IF hasResourceAcl(resourceInfo)
    THEN Return(getPublicResourceAccess(resourceInfo.resourceAcl))
  ELSE IF hasFallbackAcl(resourceInfo)
    THEN Return(getPublicDefaultAccess(resourceInfo.fallbackAcl))
  ELSE ReturnNull

\* removePublicFromRule that takes every agent class off the existing Rule
removePublicFromRule_AllClasses(rule, resourceIri, ruleType) ==
  IF Public \notin rule.agentClass
    THEN <<rule, internal_initialiseAclRule(NoAccess)>>
    ELSE LET ruleWithoutPublic == [rule EXCEPT !.agentClass = {}]
             duplicate == internal_duplicateAclRule(rule)
             ruleForOtherTargets ==
               [duplicate EXCEPT
                  !.agentClass = {Public},
                  !.agent = {},
                  !.agentGroup = {},
                  !.accessTo = IF ruleType = "resource"
                                 THEN @ \ {resourceIri} ELSE @,
                  !.default = IF ruleType = "resource"
                                THEN @ ELSE @ \ {resourceIri}]
         IN  <<ruleWithoutPublic, ruleForOtherTargets>>

\* <<the Rule without the public, a new Rule for the public for the other targets>>
removePublicFromRule(rule, resourceIri, ruleType) ==
  IF Public \notin rule.agentClass
    THEN <<rule, internal_initialiseAclRule(NoAccess)>>
    ELSE LET ruleWithoutPublic ==
               [rule EXCEPT !.agentClass = @ \ {Public}]
             duplicate == internal_duplicateAclRule(rule)
             ruleForOtherTargets ==
               [duplicate EXCEPT
                  !.agentClass = {Public},
                  !.agent = {},
                  !.agentGroup = {},
                  !.accessTo = IF ruleType = "resource"
                                 THEN @ \ {resourceIri} ELSE @,
                  !.default = IF ruleType = "resource"
                                THEN @ ELSE @ \ {resourceIri}]
         IN  <<ruleWithoutPublic, ruleForOtherTargets>>

\* the forEach loop of the public setters over getThingAll(aclDataset)
RECURSIVE filterPublicRules(_, _, _, _)
filterPublicRules(aclRules, filteredThings, resourceIri, ruleType) ==
  IF aclRules = << >> THEN filteredThings
  ELSE LET aclRule == Head(aclRules)
           split == removePublicFromRule(aclRule, resourceIri, ruleType)
           withFiltered == setThing(filteredThings, aclRule, split[1])
           withRemaining == addThing(withFiltered, split[2])
       IN  filterPublicRules(Tail(aclRules), withRemaining,
                             resourceIri, ruleType)

\* setPublicResourceAccess that adds the new Rule to the Rules that are there
setPublicResourceAccess_Merge(aclDataset, access) ==
  LET newRule == [internal_initialiseAclRule(access) EXCEPT
                    !.accessTo = {aclDataset.internal_accessTo},
                    !.agentClass = {Public}]
      updatedAcl == [aclDataset EXCEPT
                       !.things = addThing(aclDataset.things, newRule)]
  IN  internal_removeEmptyAclRules(updatedAcl)

setPublicResourceAccess(aclDataset, access) ==
  LET filteredThings == filterPublicRules(getThingAll(aclDataset),
                          aclDataset.things,
                          aclDataset.internal_accessTo, "resource")
      newRule == [internal_initialiseAclRule(access) EXCEPT
                    !.accessTo = {aclDataset.internal_accessTo},
                    !.agentClass = {Public}]
      updatedAcl == [aclDataset EXCEPT
                       !.things = addThing(filteredThings, newRule)]
  IN  internal_removeEmptyAclRules(updatedAcl)

setPublicDefaultAccess(aclDataset, access) ==
  LET filteredThings == filterPublicRules(getThingAll(aclDataset),
                          aclDataset.things,
                          aclDataset.internal_accessTo, "default")
      newRule == [internal_initialiseAclRule(access) EXCEPT
                    !.default = {aclDataset.internal_accessTo},
                    !.agentClass = {Public}]
      updatedAcl == [aclDataset EXCEPT
                       !.things = addThing(filteredThings, newRule)]
  IN  internal_removeEmptyAclRules(updatedAcl)

----------------------------------------------------------------------------
(* acl/group.ts *)

getGroupAclRuleForGroup(rules, group) ==
  internal_getAclRulesForIri(rules, group, "agentGroup")

\* getAccessByGroup that reads the agents of the Rules as well
getAccessByGroup_Agents(aclRules) ==
  LET byGroup == internal_getAccessByIri(aclRules, "agentGroup")
      byAgent == internal_getAccessByIri(aclRules, "agent")
  IN  [iri \in DOMAIN byGroup \cup DOMAIN byAgent |->
         IF iri \in DOMAIN byGroup THEN byGroup[iri] ELSE byAgent[iri]]

getAccessByGroup(aclRules) == internal_getAccessByIri(aclRules, "agentGroup")

getGroupResourceAccess(aclDataset, group) ==
  LET allRules == internal_getAclRules(aclDataset)
      resourceRules == internal_getResourceAclRulesForResource(
                         allRules, aclDataset.internal_accessTo)
      groupResourceRules == getGroupAclRuleForGroup(resourceRules, group)
      groupAccessModes == mapGetAccess(groupResourceRules)
  IN  internal_combineAccessModes(groupAccessModes)

getGroupResourceAccessAll(aclDataset) ==
  LET allRules == internal_getAclRules(aclDataset)
      resourceRules == internal_getResourceAclRulesForResource(
                         allRules, aclDataset.internal_accessTo)
  IN  getAccessByGroup(resourceRules)

getGroupDefaultAccess(aclDataset, group) ==
  LET allRules == internal_getAclRules(aclDataset)
      defaultRules == internal_getDefaultAclRulesForResource(
                        allRules, aclDataset.internal_accessTo)
      groupDefaultRules == getGroupAclRuleForGroup(defaultRules, group)
      groupAccessModes == mapGetAccess(groupDefaultRules)
  IN  internal_combineAccessModes(groupAccessModes)

getGroupDefaultAccessAll(aclDataset) ==
  LET allRules == internal_getAclRules(aclDataset)
      defaultRules == internal_getDefaultAclRulesForResource(
                        allRules, aclDataset.internal_accessTo)
  IN  getAccessByGroup(defaultRules)

\* getGroupAccess that answers "no access" where no ACL is available
getGroupAccess_NoAccessForNull(resourceInfo, group) ==
  IF hasResourceAcl(resourceInfo)
    THEN Return(getGroupResourceAccess(resourceInfo.resourceAcl, group))
  ELSE IF hasFallbackAcl(resourceInfo)
    THEN Return(getGroupDefaultAccess(resourceInfo.fallbackAcl, group))
  ELSE Return(NoAccess)

getGroupAccess(resourceInfo, group) ==
  IF hasResourceAcl(resourceInfo)
    THEN Return(getGroupResourceAccess(resourceInfo.resourceAcl, group))
  ELSE IF hasFallbackAcl(resourceInfo)
    THEN Return(getGroupDefaultAccess(resourceInfo.fallbackAcl, group))
  ELSE ReturnNull

getGroupAccessAll(resourceInfo) ==
  IF hasResourceAcl(resourceInfo)
    THEN LET resourceAcl == getResourceAcl(resourceInfo).value
         IN  Return(getGroupResourceAccessAll(resourceAcl))
  ELSE IF hasFallbackAcl(resourceInfo)
    THEN LET fallbackAcl == getFallbackAcl(resourceInfo).value
         IN  Return(getGroupDefaultAccessAll(fallbackAcl))
  ELSE ReturnNull

\* <<the Rule without the Group, a new Rule for the other targets>>
removeGroupFromRule(rule, group, resourceIri, ruleType) ==
  IF group \notin rule.agentGroup
    THEN <<rule, internal_initialiseAclRule(NoAccess)>>
    ELSE LET ruleWithoutGroup ==
               [rule EXCEPT !.agentGroup = @ \ {group}]
             duplicate == internal_duplicateAclRule(rule)
             ruleForOtherTargets ==
               [duplicate EXCEPT
                  !.accessTo = IF ruleType = "resource"
                                 THEN @ \ {resourceIri} ELSE @,
                  !.default = IF ruleType = "resource"
                                THEN @ ELSE @ \ {resourceIri},
                  !.agent = {group},
                  !.agentClass = {},
                  !.agentGroup = {}]
         IN  <<ruleWithoutGroup, ruleForOtherTargets>>

\* the forEach loop of setGroupResourceAccess over getThingAll(aclDataset)
RECURSIVE filterGroupRules(_, _, _, _, _)
filterGroupRules(aclRules, filteredThings, group, resourceIri, ruleType) ==
  IF aclRules = << >> THEN filteredThings
  ELSE LET aclRule == Head(aclRules)
           split == removeGroupFromRule(aclRule, group, resourceIri, ruleType)
           withFiltered == setThing(filteredThings, aclRule, split[1])
           withRemaining == addThing(withFiltered, split[2])
       IN  filterGroupRules(Tail(aclRules), withRemaining, group,
                            resourceIri, ruleType)

setGroupResourceAccess(aclDataset, group, access) ==
  LET filteredThings == filterGroupRules(getThingAll(aclDataset),
                          aclDataset.things, group,
                          aclDataset.internal_accessTo, "resource")
      newRule == [internal_initialiseAclRule(access) EXCEPT
                    !.accessTo = {aclDataset.internal_accessTo},
                    !.agentGroup = {group}]
      updatedAcl == [aclDataset EXCEPT
                       !.things = addThing(filteredThings, newRule)]
  IN  internal_removeEmptyAclRules(updatedAcl)

----------------------------------------------------------------------------
(* The rule mutator as a state machine: an ACL dataset bound to ResourceX  *)
(* is passed to one of the setters, and the result may be passed to the    *)
(* same setter again with the same arguments.                              *)

\* number of Things in an initial dataset built from CoreThings
MaxRules == 2

WideModeSets == {{}, {"Read", "Write"}}
CoreModeSets == {{"Read"}, {"Write", "Control"}}

\* Things of the initial datasets that hold one Thing: an Authorization, an
\* Authorization with statements that are not ACL statements, or a subject
\* that is not an Authorization, with any of the ACL statements below
WideThings ==
  {[w EXCEPT !.isAuthorization = k[1], !.otherQuads = k[2]] :
     w \in [isAuthorization : {TRUE}, otherQuads : {FALSE},
            accessTo : {{}, {ResourceX}, {ResourceX, ResourceY}},
            default : {{}, {ResourceX}},
            defaultForNew : {{}, {ResourceX}},
            agent : {{}, {"i1"}},
            agentGroup : {{}, {"i1"}, {"i1", "i2"}},
            agentClass : {{}, {Public}, {Public, AuthenticatedAgent}},
            origin : {{}},
            mode : WideModeSets],
     k \in {<<TRUE, FALSE>>, <<TRUE, TRUE>>, <<FALSE, FALSE>>}}

\* Things of the initial datasets that hold up to MaxRules Things
CoreThings ==
  {[BlankThing EXCEPT
      !.isAuthorization = TRUE,
      !.accessTo = t[1], !.default = t[2],
      !.agent = g[1], !.agentGroup = g[2], !.agentClass = g[3],
      !.mode = m] :
     t \in {<<{ResourceX}, {}>>, <<{}, {ResourceX}>>,
            <<{ResourceX}, {ResourceX}>>},
     g \in {<<{"i1"}, {"i1"}, {}>>, <<{}, {"i1", "i2"}, {Public}>>},
     m \in CoreModeSets}

InitThingSeqs ==
  [1..1 -> WideThings] \cup UNION {[1..n -> CoreThings] : n \in 0..MaxRules}

NoOp == [name |-> "none", access |-> NoAccess, group |-> Null]

NoResource ==
  [sourceIri |-> ResourceY, aclUrl |-> Null,
   resourceAcl |-> NullAcl, fallbackAcl |-> NullAcl]

NoResult == [name |-> "none", group |-> Null, returned |-> ReturnNull]

InitSet ==
  /\ \E s \in InitThingSeqs :
       acl = [internal_accessTo |-> ResourceX,
              sourceIri |-> "/c/.acl",
              things |-> SeqToThings(s)]
  /\ prevAcl = acl
  /\ lastOp = NoOp
  /\ calls = 0
  /\ resource = NoResource
  /\ result = NoResult
  /\ NoNetwork

\* what the call described by `op` returns for the dataset `aclDataset`
applySetter(op, aclDataset) ==
  CASE op.name = "setPublicResourceAccess" ->
         setPublicResourceAccess(aclDataset, op.access)
    [] op.name = "setPublicDefaultAccess" ->
         setPublicDefaultAccess(aclDataset, op.access)
    [] op.name = "setGroupResourceAccess" ->
         setGroupResourceAccess(aclDataset, op.group, op.access)

SetPublicResourceAccess(access) ==
  /\ calls = 0
  /\ acl' = setPublicResourceAccess(acl, access)
  /\ prevAcl' = acl
  /\ lastOp' = [name |-> "setPublicResourceAccess", access |-> access,
                group |-> Null]
  /\ calls' = 1
  /\ UNCHANGED <<resource, result>>
  /\ UNCHANGED netVars

SetPublicDefaultAccess(access) ==
  /\ calls = 0
  /\ acl' = setPublicDefaultAccess(acl, access)
  /\ prevAcl' = acl
  /\ lastOp' = [name |-> "setPublicDefaultAccess", access |-> access,
                group |-> Null]
  /\ calls' = 1
  /\ UNCHANGED <<resource, result>>
  /\ UNCHANGED netVars

SetGroupResourceAccess(group, access) ==
  /\ calls = 0
  /\ acl' = setGroupResourceAccess(acl, group, access)
  /\ prevAcl' = acl
  /\ lastOp' = [name |-> "setGroupResourceAccess", access |-> access,
                group |-> group]
  /\ calls' = 1
  /\ UNCHANGED <<resource, result>>
  /\ UNCHANGED netVars

\* the same setter is called again, with the same arguments, on its own result
SetAgain ==
  /\ calls = 1
  /\ acl' = applySetter(lastOp, acl)
  /\ prevAcl' = acl
  /\ calls' = 2
  /\ UNCHANGED <<lastOp, resource, result>>
  /\ UNCHANGED netVars

Next ==
  \/ \E access \in Access : SetPublicResourceAccess(access)
  \/ \E access \in Access : SetPublicDefaultAccess(access)
  \/ \E group \in Iris, access \in Access : SetGroupResourceAccess(group, access)
  \/ SetAgain

Spec == InitSet /\ [][Next]_vars

----------------------------------------------------------------------------
(* Resolution as a state machine: a Resource at ResourceY, fetched with    *)
(* the ACLs that could be found for it, on which the getters are called.   *)
(* While the Resource has its own ACL, the fallback ACL attached to it may *)
(* be replaced or removed.                                                 *)

ResourceAclUrl == "/c/r.acl"
ContainerAclUrl == "/c/.acl"

\* the Things of the ACLs attached to the Resource, for an ACL bound to `url`:
\* every target, grantee and mode, and a subject that is no Authorization
ResolveWideThings(url) ==
  {[BlankThing EXCEPT
      !.isAuthorization = TRUE,
      !.accessTo = t[1], !.default = t[2], !.defaultForNew = t[3],
      !.agentGroup = g[1], !.agentClass = g[2],
      !.mode = m] :
     t \in {<<{url}, {}, {}>>, <<{}, {url}, {}>>, <<{}, {}, {url}>>,
            <<Urls \ {url}, {}, {}>>},
     g \in {<<{"i1"}, {}>>, <<{"i1", "i2"}, {Public}>>},
     m \in {{"Read"}, {"Write"}, {"Append", "Control"}}}
  \cup
  {[BlankThing EXCEPT
      !.isAuthorization = FALSE,
      !.accessTo = {url}, !.default = {url},
      !.agentGroup = {"i1", "i2"}, !.agentClass = {Public},
      !.mode = {"Read", "Write", "Control"}]}
  \cup
  {[BlankThing EXCEPT
      !.isAuthorization = TRUE,
      !.accessTo = t, !.default = t,
      !.agent = {"i2"}, !.agentGroup = {"i1"},
      !.agentClass = {AuthenticatedAgent},
      !.mode = {"Read", "Control"}] : t \in {{url}, Urls \ {url}}}

\* the Things of the ACLs that hold several Rules
ResolveCoreThings(url) ==
  {[BlankThing EXCEPT
      !.isAuthorization = TRUE,
      !.accessTo = t[1], !.default = t[2],
      !.agentGroup = g[1], !.agentClass = g[2],
      !.mode = m] :
     t \in {<<{url}, {}>>, <<{}, {url}>>, <<Urls \ {url}, {}>>},
     g \in {<<{"i1"}, {}>>, <<{"i1", "i2"}, {Public}>>},
     m \in {{"Read"}, {"Write"}}}

ResolveThings(url, n) ==
  IF n = 1 THEN ResolveWideThings(url) ELSE ResolveCoreThings(url)

\* the ACLs with `n` Things that can be attached as the Resource's own ACL:
\* the ACL of the Resource, an ACL bound to another Resource, and an ACL
\* fetched from somewhere else than the Resource's ACL URL
ResourceAcls(n) ==
  {[internal_accessTo |-> b[1], sourceIri |-> b[2], things |-> SeqToThings(s)] :
     b \in {<<ResourceY, ResourceAclUrl>>},
     s \in [1..n -> ResolveThings(ResourceY, n)]}
  \cup
  {[internal_accessTo |-> b[1], sourceIri |-> b[2], things |-> SeqToThings(s)] :
     b \in {<<ResourceX, ResourceAclUrl>>, <<ResourceX, ContainerAclUrl>>},
     s \in [1..n -> ResolveThings(ResourceX, n)]}

FallbackAcls(n) ==
  {[internal_accessTo |-> ResourceX, sourceIri |-> ContainerAclUrl,
    things |-> SeqToThings(s)] :
     s \in [1..n -> ResolveThings(ResourceX, n)]}

\* the fallback ACLs that can take the place of the one attached
ReplacementAcls ==
  {[internal_accessTo |-> ResourceX, sourceIri |-> ContainerAclUrl,
    things |-> SeqToThings(s)] :
     s \in UNION {[1..n -> {t \in ResolveCoreThings(ResourceX) :
                              t.default # {}}] : n \in 0..1}}

EmptyAcl ==
  [internal_accessTo |-> ResourceX, sourceIri |-> ContainerAclUrl,
   things |-> EmptyThings]

\* the two ACLs attached to a Resource hold at most MaxRules Things together
InitResolve ==
  /\ \E n \in 0..MaxRules, m \in 0..MaxRules :
       /\ n + m <= MaxRules
       /\ \E aclUrl \in {ResourceAclUrl, Null},
             resourceAcl \in {NullAcl} \cup ResourceAcls(n),
             fallbackAcl \in {NullAcl} \cup FallbackAcls(m) :
            resource = [sourceIri |-> ResourceY, aclUrl |-> aclUrl,
                        resourceAcl |-> resourceAcl,
                        fallbackAcl |-> fallbackAcl]
  /\ result = NoResult
  /\ acl = EmptyAcl
  /\ prevAcl = EmptyAcl
  /\ lastOp = NoOp
  /\ calls = 0
  /\ NoNetwork

GetPublicAccess ==
  /\ result' = [name |-> "getPublicAccess", group |-> Null,
                returned |-> getPublicAccess(resource)]
  /\ UNCHANGED <<resource, acl, prevAcl, lastOp, calls>>
  /\ UNCHANGED netVars

GetGroupAccess(group) ==
  /\ result' = [name |-> "getGroupAccess", group |-> group,
                returned |-> getGroupAccess(resource, group)]
  /\ UNCHANGED <<resource, acl, prevAcl, lastOp, calls>>
  /\ UNCHANGED netVars

GetGroupAccessAll ==
  /\ result' = [name |-> "getGroupAccessAll", group |-> Null,
                returned |-> getGroupAccessAll(resource)]
  /\ UNCHANGED <<resource, acl, prevAcl, lastOp, calls>>
  /\ UNCHANGED netVars

\* the Resource has its own ACL and another fallback ACL gets attached
ReplaceFallbackAcl(fallbackAcl) ==
  /\ hasResourceAcl(resource)
  /\ resource' = [resource EXCEPT !.fallbackAcl = fallbackAcl]
  /\ UNCHANGED <<result, acl, prevAcl, lastOp, calls>>
  /\ UNCHANGED netVars

RemoveFallbackAcl ==
  /\ hasResourceAcl(resource)
  /\ hasFallbackAcl(resource)
  /\ resource' = [resource EXCEPT !.fallbackAcl = NullAcl]
  /\ UNCHANGED <<result, acl, prevAcl, lastOp, calls>>
  /\ UNCHANGED netVars

NextResolve ==
  \/ GetPublicAccess
  \/ \E group \in Iris : GetGroupAccess(group)
  \/ GetGroupAccessAll
  \/ \E fallbackAcl \in ReplacementAcls : ReplaceFallbackAcl(fallbackAcl)
  \/ RemoveFallbackAcl

SpecResolve == InitResolve /\ [][NextResolve]_vars

----------------------------------------------------------------------------
(* Effective access of a grantee selector *)

\* what a caller gets for the Access Modes `access` it asked for
Normalise(access) == [access EXCEPT !.append = access.append \/ access.write]

Selectors ==
  {[kind |-> "agent", iri |-> i] : i \in Iris}
    \cup {[kind |-> "agentGroup", iri |-> i] : i \in Iris}
    \cup {[kind |-> "agentClass", iri |-> c] : c \in AgentClasses}

PublicSelector == [kind |-> "agentClass", iri |-> Public]

granteeResourceAccess(aclDataset, selector) ==
  IF selector = PublicSelector THEN getPublicResourceAccess(aclDataset)
  ELSE IF selector.kind = "agentGroup"
    THEN getGroupResourceAccess(aclDataset, selector.iri)
  ELSE internal_combineAccessModes(mapGetAccess(
         internal_getAclRulesForIri(
           internal_getResourceAclRulesForResource(
             internal_getAclRules(aclDataset), aclDataset.internal_accessTo),
           selector.iri, selector.kind)))

granteeDefaultAccess(aclDataset, selector) ==
  IF selector = PublicSelector THEN getPublicDefaultAccess(aclDataset)
  ELSE IF selector.kind = "agentGroup"
    THEN getGroupDefaultAccess(aclDataset, selector.iri)
  ELSE internal_combineAccessModes(mapGetAccess(
         internal_getAclRulesForIri(
           internal_getDefaultAclRulesForResource(
             internal_getAclRules(aclDataset), aclDataset.internal_accessTo),
           selector.iri, selector.kind)))

SameAccessFor(selectors, a, b) ==
  \A selector \in selectors :
    /\ granteeResourceAccess(a, selector) = granteeResourceAccess(b, selector)
    /\ granteeDefaultAccess(a, selector) = granteeDefaultAccess(b, selector)

Called(name) == calls >= 1 /\ lastOp.name = name

\* every Thing of the dataset the setter was given is an ACL Rule
CalledOnRules == \A thing \in DOMAIN prevAcl.things : isAclRule(thing)

----------------------------------------------------------------------------
(* Claims *)

\* C1: after setPublicResourceAccess(S, M) the public's resource access is M
\* with append forced by write, and after setGroupResourceAccess(S, g, M) the
\* resource access of g is that value, whatever S granted before.
C1_ResourceOverwrite ==
  /\ Called("setPublicResourceAccess") =>
       getPublicResourceAccess(acl) = Normalise(lastOp.access)
  /\ Called("setGroupResourceAccess") =>
       getGroupResourceAccess(acl, lastOp.group) = Normalise(lastOp.access)

C1_Witness ==
  /\ calls = 1
  /\ lastOp.name = "setPublicResourceAccess"
  /\ lastOp.access = [NoAccess EXCEPT !.read = TRUE]
  /\ getPublicResourceAccess(prevAcl).control
  /\ getPublicResourceAccess(acl) = [NoAccess EXCEPT !.read = TRUE]

\* C2: after setPublicDefaultAccess(S, M) on a set of Rules S the public's
\* default access is M with append forced by write: every default grant of S
\* to the public, through any Rule getPublicDefaultAccess counts, is overridden.
C2_DefaultOverwrite ==
  (Called("setPublicDefaultAccess") /\ CalledOnRules) =>
    getPublicDefaultAccess(acl) = Normalise(lastOp.access)

\* C3: the public setters leave the resource and default access of every
\* agent, every group and every other agent class as it was.
C3_PublicSettersKeepOtherGrantees ==
  (Called("setPublicResourceAccess") \/ Called("setPublicDefaultAccess")) =>
    SameAccessFor(Selectors \ {PublicSelector}, acl, prevAcl)

C3_Witness ==
  /\ calls = 1
  /\ lastOp.name = "setPublicResourceAccess"
  /\ \E t \in DOMAIN prevAcl.things :
       /\ t.isAuthorization
       /\ {Public, AuthenticatedAgent} \subseteq t.agentClass
       /\ "i1" \in t.agentGroup
       /\ ResourceX \in t.accessTo
       /\ t.mode # {}
  /\ getPublicResourceAccess(acl) # getPublicResourceAccess(prevAcl)
  /\ getGroupResourceAccess(acl, "i1") # NoAccess

\* C4: setPublicResourceAccess leaves the public's default access as it was,
\* and setPublicDefaultAccess leaves the public's resource access as it was.
C4_PublicSettersKeepOtherScope ==
  /\ Called("setPublicResourceAccess") =>
       getPublicDefaultAccess(acl) = getPublicDefaultAccess(prevAcl)
  /\ Called("setPublicDefaultAccess") =>
       getPublicResourceAccess(acl) = getPublicResourceAccess(prevAcl)

\* C5: setGroupResourceAccess(S, g, M) on a set of Rules S leaves the resource
\* and default access of every other grantee selector, and the default access
\* of g, as it was.
C5_GroupSetterFrame ==
  (Called("setGroupResourceAccess") /\ CalledOnRules) =>
    /\ SameAccessFor(
         Selectors \ {[kind |-> "agentGroup", iri |-> lastOp.group]},
         acl, prevAcl)
    /\ getGroupDefaultAccess(acl, lastOp.group)
         = getGroupDefaultAccess(prevAcl, lastOp.group)

\* C6: calling a setter again with the same arguments on its own result
\* gives a dataset with the same effective access for every grantee and scope.
C6_Idempotence ==
  calls = 2 => SameAccessFor(Selectors, acl, prevAcl)

C6_Witness ==
  /\ calls = 2
  /\ lastOp.name = "setGroupResourceAccess"
  /\ lastOp.access.write
  /\ getGroupResourceAccess(acl, lastOp.group).write
  /\ getPublicDefaultAccess(acl) # NoAccess
  /\ NumberOfThings(acl.things) >= 2

----------------------------------------------------------------------------
(* What the rules of an ACL dataset say, stated on the set of its Things *)

\* the Authorizations of `aclDataset` that apply to the Resource it is bound
\* to ("resource") or to the children of that Resource ("default")
RulesInScope(aclDataset, scope) ==
  {t \in DOMAIN aclDataset.things :
     /\ t.isAuthorization
     /\ IF scope = "resource"
          THEN aclDataset.internal_accessTo \in t.accessTo
          ELSE aclDataset.internal_accessTo \in t.default \cup t.defaultForNew}

\* the Access Modes that `rules` store for the grantee `iri` of kind `kind`
GrantedBy(rules, kind, iri) ==
  LET stored(modes) == \E t \in rules : iri \in t[kind] /\ t.mode \cap modes # {}
  IN  [read |-> stored({"Read"}),
       append |-> stored({"Append", "Write"}),
       write |-> stored({"Write"}),
       control |-> stored({"Control"})]

\* the ACL that governs the Resource, and the scope its rules are read in
Governing == IF hasResourceAcl(resource) THEN resource.resourceAcl
             ELSE resource.fallbackAcl
GoverningScope == IF hasResourceAcl(resource) THEN "resource" ELSE "default"

Returned(name) == result.name = name /\ ~result.returned.null

\* C7: while the Resource has its own ACL, the getters return the resource
\* access read from that ACL, whatever fallback ACL is attached, replaced or
\* removed, and getGroupAccessAll names no group that the own ACL does not name.
C7_FallbackPrecedence ==
  hasResourceAcl(resource) =>
    /\ result.name # "none" => ~result.returned.null
    /\ result.name = "getPublicAccess" =>
         result.returned.value = getPublicResourceAccess(resource.resourceAcl)
    /\ result.name = "getGroupAccess" =>
         result.returned.value
           = getGroupResourceAccess(resource.resourceAcl, result.group)
    /\ result.name = "getGroupAccessAll" =>
         /\ result.returned.value
              = getGroupResourceAccessAll(resource.resourceAcl)
         /\ DOMAIN result.returned.value \subseteq
              UNION {t.agentGroup : t \in DOMAIN resource.resourceAcl.things}

C7_Witness ==
  /\ hasResourceAcl(resource)
  /\ hasFallbackAcl(resource)
  /\ result.name = "getGroupAccessAll"
  /\ DOMAIN result.returned.value = {"i1"}
  /\ DOMAIN getGroupDefaultAccessAll(resource.fallbackAcl) = {"i1", "i2"}
  /\ result.returned.value["i1"]
       # getGroupDefaultAccessAll(resource.fallbackAcl)["i1"]

\* C8: the getters return null exactly when the Resource has neither a usable
\* ACL of its own nor a fallback ACL; when an ACL is available and no rule of
\* it names the grantee they return all-false, or the empty map, not null.
C8_NullOnlyWhenUnknown ==
  result.name # "none" =>
    /\ result.returned.null
         <=> (~hasResourceAcl(resource) /\ resource.fallbackAcl = NullAcl)
    /\ (Returned("getPublicAccess")
          /\ \A t \in DOMAIN Governing.things : Public \notin t.agentClass)
         => result.returned.value = NoAccess
    /\ (Returned("getGroupAccess")
          /\ \A t \in DOMAIN Governing.things : result.group \notin t.agentGroup)
         => result.returned.value = NoAccess
    /\ (Returned("getGroupAccessAll")
          /\ \A t \in DOMAIN Governing.things : t.agentGroup = {})
         => DOMAIN result.returned.value = {}

C8_Witness ==
  /\ ~hasResourceAcl(resource)
  /\ resource.resourceAcl # NullAcl
  /\ hasFallbackAcl(resource)
  /\ resource.fallbackAcl.things # EmptyThings
  /\ result.name = "getGroupAccess"
  /\ \A t \in DOMAIN resource.fallbackAcl.things :
       result.group \notin t.agentGroup
  /\ ~result.returned.null
  /\ result.returned.value = NoAccess

\* C9: through the Resource's own ACL only the rules whose accessTo holds the
\* Resource contribute, through the fallback ACL only the rules whose default
\* targets hold the Container the fallback ACL is bound to.
C9_ScopeSelection ==
  LET rules == RulesInScope(Governing, GoverningScope)
  IN  /\ Returned("getPublicAccess") =>
           result.returned.value = GrantedBy(rules, "agentClass", Public)
      /\ Returned("getGroupAccess") =>
           result.returned.value = GrantedBy(rules, "agentGroup", result.group)
      /\ Returned("getGroupAccessAll") =>
           /\ DOMAIN result.returned.value
                = UNION {t.agentGroup : t \in rules}
           /\ \A group \in DOMAIN result.returned.value :
                result.returned.value[group]
                  = GrantedBy(rules, "agentGroup", group)

C9_Witness ==
  /\ ~hasResourceAcl(resource)
  /\ hasFallbackAcl(resource)
  /\ \E t \in DOMAIN resource.fallbackAcl.things :
       /\ Public \in t.agentClass
       /\ t.default = {ResourceX}
       /\ t.mode = {"Read"}
  /\ \E t \in DOMAIN resource.fallbackAcl.things :
       /\ Public \in t.agentClass
       /\ t.accessTo = {ResourceX}
       /\ t.mode = {"Write"}
  /\ result.name = "getPublicAccess"
  /\ ~result.returned.null
  /\ result.returned.value = [NoAccess EXCEPT !.read = TRUE]

WriteImpliesAppend(access) == access.write => access.append

AttachedAcls == {resource.resourceAcl, resource.fallbackAcl} \ {NullAcl}

\* C10: every Access returned by internal_getAccess, by
\* internal_combineAccessModes, by internal_getAccessByIri and by the getters
\* has append whenever it has write; read, write and control are those stored.
C10_WriteImpliesAppend ==
  /\ \A aclDataset \in AttachedAcls :
       /\ \A t \in DOMAIN aclDataset.things :
            LET access == internal_getAccess(t)
            IN  /\ WriteImpliesAppend(access)
                /\ access.read <=> "Read" \in t.mode
                /\ access.write <=> "Write" \in t.mode
                /\ access.control <=> "Control" \in t.mode
       /\ WriteImpliesAppend(internal_combineAccessModes(
            mapGetAccess(getThingAll(aclDataset))))
       /\ WriteImpliesAppend(internal_combineAccessModes(
            <<[NoAccess EXCEPT !.write = TRUE],
              getPublicResourceAccess(aclDataset)>>))
       /\ LET byGroup == internal_getAccessByIri(
                           internal_getAclRules(aclDataset), "agentGroup")
          IN  \A group \in DOMAIN byGroup : WriteImpliesAppend(byGroup[group])
       /\ WriteImpliesAppend(getPublicResourceAccess(aclDataset))
       /\ WriteImpliesAppend(getPublicDefaultAccess(aclDataset))
       /\ \A group \in Iris :
            /\ WriteImpliesAppend(getGroupResourceAccess(aclDataset, group))
            /\ WriteImpliesAppend(getGroupDefaultAccess(aclDataset, group))
       /\ \A group \in DOMAIN getGroupResourceAccessAll(aclDataset) :
            WriteImpliesAppend(getGroupResourceAccessAll(aclDataset)[group])
       /\ \A group \in DOMAIN getGroupDefaultAccessAll(aclDataset) :
            WriteImpliesAppend(getGroupDefaultAccessAll(aclDataset)[group])
  /\ (Returned("getPublicAccess") \/ Returned("getGroupAccess")) =>
       WriteImpliesAppend(result.returned.value)
  /\ Returned("getGroupAccessAll") =>
       \A group \in DOMAIN result.returned.value :
         WriteImpliesAppend(result.returned.value[group])

C10_Witness ==
  /\ Returned("getGroupAccessAll")
  /\ \E t \in DOMAIN Governing.things :
       /\ t.mode = {"Write"}
       /\ "i1" \in t.agentGroup
  /\ "i1" \in DOMAIN result.returned.value
  /\ result.returned.value["i1"].write
  /\ result.returned.value["i1"].append

----------------------------------------------------------------------------
(* Combining Access values as a state machine: a caller holds a list of    *)
(* Access values, has internal_combineAccessModes combine it, and may then *)
(* reorder the list or combine two neighbours of it beforehand.            *)

MaxModes == 3

InitCombine ==
  /\ accessList \in UNION {[1..n -> Access] : n \in 0..MaxModes}
  /\ result = NoResult
  /\ acl = EmptyAcl
  /\ prevAcl = EmptyAcl
  /\ lastOp = NoOp
  /\ calls = 0
  /\ resource = NoResource
  /\ server = NoServer
  /\ walk = NoWalk
  /\ requests = NoRequests

CombineAccessModes ==
  /\ result' = [name |-> "internal_combineAccessModes", group |-> Null,
                returned |-> Return(internal_combineAccessModes(accessList))]
  /\ UNCHANGED <<accessList, acl, prevAcl, lastOp, calls, resource>>
  /\ UNCHANGED <<server, walk, requests>>

\* the list in another order: two neighbours change places
SwapModes(i) ==
  /\ i + 1 <= Len(accessList)
  /\ accessList' = [accessList EXCEPT ![i] = accessList[i + 1],
                                      ![i + 1] = accessList[i]]
  /\ UNCHANGED <<result, acl, prevAcl, lastOp, calls, resource>>
  /\ UNCHANGED <<server, walk, requests>>

\* the list in another grouping: two neighbours are combined beforehand
GroupModes(i) ==
  /\ i + 1 <= Len(accessList)
  /\ accessList' =
       SubSeq(accessList, 1, i - 1)
         \o <<internal_combineAccessModes(
                <<accessList[i], accessList[i + 1]>>)>>
         \o SubSeq(accessList, i + 2, Len(accessList))
  /\ UNCHANGED <<result, acl, prevAcl, lastOp, calls, resource>>
  /\ UNCHANGED <<server, walk, requests>>

NextCombine ==
  \/ CombineAccessModes
  \/ \E i \in 1..MaxModes : SwapModes(i)
  \/ \E i \in 1..MaxModes : GroupModes(i)

SpecCombine == InitCombine /\ [][NextCombine]_vars

\* C11: internal_combineAccessModes is a field-wise OR, with append taken from
\* append or write; the empty list gives all-false; the result is that of the
\* list in any order and any grouping.
C11_CombineIsFieldwiseOr ==
  result.name = "internal_combineAccessModes" =>
    LET combined == result.returned.value
        some(field) == \E i \in 1..Len(accessList) : accessList[i][field]
    IN  /\ combined = internal_combineAccessModes(accessList)
        /\ combined.read <=> some("read")
        /\ combined.write <=> some("write")
        /\ combined.control <=> some("control")
        /\ combined.append <=> (some("append") \/ some("write"))
        /\ accessList = << >> => combined = NoAccess

C11_Witness ==
  /\ result.name = "internal_combineAccessModes"
  /\ Len(accessList) = 2
  /\ accessList[1] = [NoAccess EXCEPT !.read = TRUE]
  /\ accessList[2] = [NoAccess EXCEPT !.write = TRUE]
  /\ result.returned.value
       = [read |-> TRUE, append |-> TRUE, write |-> TRUE, control |-> FALSE]

----------------------------------------------------------------------------
(* acl/acl.ts: the walk up the Container hierarchy to the fallback ACL.    *)
(* A path is the sequence of its characters.  All URLs are on the origin   *)
(* of the Resource, and are written as their paths; no path has "//" at    *)
(* its start, so that a path resolved against the origin is that path on   *)
(* the same origin.                                                        *)

NoUrl == << >>
RootPath == <<"/">>

Min(a, b) == IF a <= b THEN a ELSE b
Max(a, b) == IF a >= b THEN a ELSE b

\* String.prototype.substring(indexStart, indexEnd)
substring(str, indexStart, indexEnd) ==
  LET clamp(index) == Max(0, Min(index, Len(str)))
      between[from \in {clamp(indexStart)}, to \in {clamp(indexEnd)}] ==
        SubSeq(str, Min(from, to) + 1, Max(from, to))
  IN  between[clamp(indexStart), clamp(indexEnd)]

\* String.prototype.indexOf(searchString), for one character
lastIndexOf_First(str, char) ==
  LET indexIn[s \in {str}] ==
        IF \E i \in 1..Len(s) : s[i] = char
          THEN (CHOOSE i \in 1..Len(s) :
                  /\ s[i] = char
                  /\ \A j \in 1..(i - 1) : s[j] # char) - 1
          ELSE -1
  IN  indexIn[str]

\* String.prototype.lastIndexOf(searchString), for one character
lastIndexOf(str, char) ==
  LET indexIn[s \in {str}] ==
        IF \E i \in 1..Len(s) : s[i] = char
          THEN (CHOOSE i \in 1..Len(s) :
                  /\ s[i] = char
                  /\ \A j \in (i + 1)..Len(s) : s[j] # char) - 1
          ELSE -1
  IN  indexIn[str]

\* internal_getContainerPath that keeps the slash at the end of the path
internal_getContainerPath_KeepsSlash(resourcePath) ==
  substring(resourcePath, 0, lastIndexOf(resourcePath, "/")) \o <<"/">>

internal_getContainerPath(resourcePath) ==
  LET resourcePathWithoutTrailingSlash ==
        IF substring(resourcePath, Len(resourcePath) - 1, Len(resourcePath))
             = <<"/">>
          THEN substring(resourcePath, 0, Len(resourcePath) - 1)
          ELSE resourcePath
      containerPath ==
        substring(resourcePath, 0,
                  lastIndexOf(resourcePathWithoutTrailingSlash, "/"))
          \o <<"/">>
  IN  containerPath

\* what the Pod answers for the Container at `url`, and for its ACL
NoAnswer == [info |-> "notFound", acl |-> "notFound"]
answerFor(url) == IF url \in DOMAIN server THEN server[url] ELSE NoAnswer

\* the URL a Container advertises for its ACL: Link: <.acl>; rel="acl"
aclUrlOf(containerUrl) == containerUrl \o <<".acl">>
containerOf(aclUrl) == SubSeq(aclUrl, 1, Len(aclUrl) - 1)

\* resource/resource: the metadata of the Resource at `url`; `ok` is false
\* where the request fails, and then getResourceInfo throws
getResourceInfo(url) ==
  LET info == answerFor(url).info
  IN  [ok |-> info \in {"pointer", "noPointer"},
       status |-> info,
       sourceIri |-> url,
       aclUrl |-> IF info = "pointer" THEN aclUrlOf(url) ELSE NoUrl]

\* resource/solidDataset: the dataset at `url`; `ok` is false where the
\* request fails, and then getSolidDataset throws
getSolidDataset(url) ==
  LET answer == answerFor(containerOf(url)).acl
  IN  [ok |-> answer = "exists",
       status |-> answer,
       sourceIri |-> url,
       things |-> EmptyThings]

hasAccessibleAcl(dataset) == dataset.aclUrl # NoUrl

\* what internal_fetchResourceAcl returns once the Pod has answered with
\* `response`: the ACL bound to `dataset`, or null when the request failed
internal_fetchResourceAcl(dataset, response) ==
  IF ~hasAccessibleAcl(dataset) THEN ReturnNull
  ELSE IF response.ok
    THEN Return([internal_accessTo |-> getSourceUrl(dataset),
                 sourceIri |-> response.sourceIri,
                 things |-> response.things])
  ELSE ReturnNull

NoInfo == [ok |-> FALSE, status |-> "none", sourceIri |-> NoUrl, aclUrl |-> NoUrl]

\* the walk for the Resource at `resourcePath`, not started yet
ReadyWalk(resourcePath) ==
  [pc |-> "ready", resourcePath |-> resourcePath, path |-> resourcePath,
   containerInfo |-> NoInfo, outcome |-> "none", returned |-> ReturnNull]

\* internal_fetchFallbackAcl returns `returned`, or throws (outcome "failure")
finish(w, outcome, returned, sent) ==
  [walk |-> [w EXCEPT !.pc = "done", !.outcome = outcome,
                      !.returned = returned],
   requests |-> sent]

\* internal_fetchFallbackAcl that takes the empty path for the root
internal_fetchFallbackAcl_EmptyRoot(w, resourcePath, sent) ==
  IF resourcePath = << >> THEN finish(w, "null", ReturnNull, sent)
  ELSE LET containerIri == internal_getContainerPath(resourcePath)
       IN  [walk |-> [w EXCEPT !.pc = "getResourceInfo",
                               !.path = resourcePath],
            requests |-> Append(sent, [kind |-> "getResourceInfo",
                                       url |-> containerIri])]

\* internal_fetchFallbackAcl, up to its first request: the Resource at
\* `resourcePath` is the root, or the metadata of its Container is asked for
internal_fetchFallbackAcl(w, resourcePath, sent) ==
  IF resourcePath = RootPath THEN finish(w, "null", ReturnNull, sent)
  ELSE LET containerPath == internal_getContainerPath(resourcePath)
           containerIri == containerPath
       IN  [walk |-> [w EXCEPT !.pc = "getResourceInfo",
                               !.path = resourcePath],
            requests |-> Append(sent, [kind |-> "getResourceInfo",
                                       url |-> containerIri])]

\* the part after getResourceInfo that walks on where no ACL is advertised
afterGetResourceInfo_WalksOn(w, containerInfo, sent) ==
  IF ~containerInfo.ok THEN finish(w, "failure", ReturnNull, sent)
  ELSE IF ~hasAccessibleAcl(containerInfo)
    THEN internal_fetchFallbackAcl(w, getSourceUrl(containerInfo), sent)
  ELSE [walk |-> [w EXCEPT !.pc = "fetchResourceAcl",
                           !.containerInfo = containerInfo],
        requests |-> Append(sent, [kind |-> "getSolidDataset",
                                   url |-> containerInfo.aclUrl])]

\* internal_fetchFallbackAcl, from the answer to getResourceInfo to the
\* request of internal_fetchResourceAcl
afterGetResourceInfo(w, containerInfo, sent) ==
  IF ~containerInfo.ok THEN finish(w, "failure", ReturnNull, sent)
  ELSE IF ~hasAccessibleAcl(containerInfo)
    THEN finish(w, "null", ReturnNull, sent)
  ELSE [walk |-> [w EXCEPT !.pc = "fetchResourceAcl",
                           !.containerInfo = containerInfo],
        requests |-> Append(sent, [kind |-> "getSolidDataset",
                                   url |-> containerInfo.aclUrl])]

\* the part after internal_fetchResourceAcl that binds the ACL it found to
\* the Resource the walk is for
afterFetchResourceAcl_BoundToResource(w, containerAcl, sent) ==
  IF containerAcl.null
    THEN internal_fetchFallbackAcl(w, getSourceUrl(w.containerInfo), sent)
    ELSE finish(w, "acl",
                Return([containerAcl.value EXCEPT
                          !.internal_accessTo = w.resourcePath]),
                sent)

\* internal_fetchFallbackAcl, from the result of internal_fetchResourceAcl on
\* to its end, or to the first request of the call for the Container
afterFetchResourceAcl(w, containerAcl, sent) ==
  IF containerAcl.null
    THEN internal_fetchFallbackAcl(w, getSourceUrl(w.containerInfo), sent)
    ELSE finish(w, "acl", containerAcl, sent)

----------------------------------------------------------------------------
(* The fallback walk as a state machine: one step for each answer of the   *)
(* Pod that internal_fetchFallbackAcl awaits.                              *)

MaxPathLen == 5

PathChars == {"/", "a"}

\* the paths of the Resources
Paths ==
  {path \in UNION {[1..n -> PathChars] : n \in 1..MaxPathLen} :
     /\ path[1] = "/"
     /\ Len(path) >= 2 => path[2] # "/"}

\* the Containers above the Resource at `path`, the root included
Ancestors(path) ==
  {SubSeq(path, 1, k) : k \in {i \in 1..(Len(path) - 1) : path[i] = "/"}}

\* a Container advertises its ACL or not, or its metadata cannot be got; an
\* advertised ACL is there, is not there, or cannot be got
Answers ==
  {[info |-> "pointer", acl |-> a] :
     a \in {"exists", "notFound", "forbidden", "transport"}}
  \cup
  {[info |-> i, acl |-> "notFound"] :
     i \in {"noPointer", "notFound", "forbidden"}}

\* no walk sends more requests than two for each character of the path
RequestsLeft == Len(requests) < 2 * MaxPathLen

InitFetch ==
  /\ \E resourcePath \in Paths :
       /\ walk = ReadyWalk(resourcePath)
       /\ server \in [Ancestors(resourcePath) -> Answers]
  /\ requests = NoRequests
  /\ accessList = NoModes
  /\ result = NoResult
  /\ acl = EmptyAcl
  /\ prevAcl = EmptyAcl
  /\ lastOp = NoOp
  /\ calls = 0
  /\ resource = NoResource

FetchFallbackAcl ==
  /\ walk.pc = "ready"
  /\ LET next == internal_fetchFallbackAcl(walk, walk.resourcePath, requests)
     IN  walk' = next.walk /\ requests' = next.requests
  /\ UNCHANGED <<server, accessList, result, acl, prevAcl, lastOp, calls,
                 resource>>

ContainerInfoResponse ==
  /\ walk.pc = "getResourceInfo"
  /\ RequestsLeft
  /\ LET containerInfo == getResourceInfo(requests[Len(requests)].url)
         next == afterGetResourceInfo(walk, containerInfo, requests)
     IN  walk' = next.walk /\ requests' = next.requests
  /\ UNCHANGED <<server, accessList, result, acl, prevAcl, lastOp, calls,
                 resource>>

ContainerAclResponse ==
  /\ walk.pc = "fetchResourceAcl"
  /\ RequestsLeft
  /\ LET response == getSolidDataset(requests[Len(requests)].url)
         containerAcl ==
           internal_fetchResourceAcl(walk.containerInfo, response)
         next == afterFetchResourceAcl(walk, containerAcl, requests)
     IN  walk' = next.walk /\ requests' = next.requests
  /\ UNCHANGED <<server, accessList, result, acl, prevAcl, lastOp, calls,
                 resource>>

NextFetch ==
  \/ FetchFallbackAcl
  \/ ContainerInfoResponse
  \/ ContainerAclResponse

SpecFetch == InitFetch /\ [][NextFetch]_vars

\* every answer of the Pod arrives
SpecFetchFair == SpecFetch /\ WF_vars(NextFetch)

----------------------------------------------------------------------------
(* Claims about the fallback walk *)

IsRequest(i, kind) == requests[i].kind = kind
InfoRequests == {i \in 1..Len(requests) : IsRequest(i, "getResourceInfo")}
AclRequests == {i \in 1..Len(requests) : IsRequest(i, "getSolidDataset")}

\* the Pod has answered request `i`, and the walk has dealt with the answer
Answered(i) == i < Len(requests) \/ walk.pc = "done"

WalkDone(outcome) == walk.pc = "done" /\ walk.outcome = outcome

\* C12: for a Resource at the path "/" internal_fetchFallbackAcl returns null
\* and sends no request.
C12_RootIsTerminal ==
  walk.pc # "idle" /\ walk.resourcePath = RootPath =>
    /\ requests = << >>
    /\ walk.pc = "done" => walk.outcome = "null" /\ walk.returned.null

C12_Witness ==
  /\ walk.pc = "done"
  /\ walk.resourcePath = RootPath
  /\ walk.outcome = "null"
  /\ requests = << >>

\* C13: when the metadata of a Container on the way up has no ACL pointer, the
\* walk returns null at that step: that request is the last one sent, also
\* when a higher Container has an ACL.
C13_IndeterminateStops ==
  \A i \in InfoRequests :
    answerFor(requests[i].url).info = "noPointer" =>
      /\ i = Len(requests)
      /\ walk.pc \in {"getResourceInfo", "done"}
      /\ walk.pc = "done" => walk.outcome = "null" /\ walk.returned.null

C13_Witness ==
  /\ WalkDone("null")
  /\ Len(requests) = 3
  /\ IsRequest(3, "getResourceInfo")
  /\ answerFor(requests[3].url).info = "noPointer"
  /\ \E higher \in Ancestors(requests[3].url) :
       answerFor(higher) = [info |-> "pointer", acl |-> "exists"]

\* the Container whose ACL exists, every Container nearer to the Resource
\* advertising an ACL that does not exist
IsNearestGoverning(container, resourcePath) ==
  /\ container \in Ancestors(resourcePath)
  /\ answerFor(container) = [info |-> "pointer", acl |-> "exists"]
  /\ \A nearer \in Ancestors(resourcePath) :
       Len(nearer) > Len(container) =>
         answerFor(nearer) = [info |-> "pointer", acl |-> "notFound"]

NonEmptySegments(path) ==
  {i \in 1..Len(path) : path[i] # "/" /\ (i = 1 \/ path[i - 1] = "/")}

\* the last Container whose metadata was asked for is shorter than the path
\* of the Resource by a character for each such request
PathShortens ==
  InfoRequests # {} =>
    LET last == CHOOSE i \in InfoRequests : \A j \in InfoRequests : j <= i
    IN  Len(requests[last].url) + Cardinality(InfoRequests)
          <= Len(walk.resourcePath)

\* C15 (as claimed): the walk ends, after at most d requests for metadata and
\* at most d requests for ACLs, d the number of non-empty segments of the path.
C15_BoundedBySegments ==
  /\ [](walk.pc # "idle" =>
          /\ Cardinality(InfoRequests)
               <= Cardinality(NonEmptySegments(walk.resourcePath))
          /\ Cardinality(AclRequests)
               <= Cardinality(NonEmptySegments(walk.resourcePath)))
  /\ <>(walk.pc = "done")

\* C15 (amended): the walk ends, after at most k requests for metadata and at
\* most k requests for ACLs, k the number of Containers above the Resource
\* (the "/" characters of the path before its last character); every step
\* shortens the path.
C15_WalkTerminates ==
  /\ [](walk.pc # "idle" =>
          /\ Cardinality(InfoRequests)
               <= Cardinality(Ancestors(walk.resourcePath))
          /\ Cardinality(AclRequests)
               <= Cardinality(Ancestors(walk.resourcePath))
          /\ PathShortens)
  /\ <>(walk.pc = "done")

C15_Witness ==
  /\ walk.pc = "done"
  /\ walk.resourcePath = <<"/", "a", "/", "/">>
  /\ Cardinality(NonEmptySegments(walk.resourcePath)) = 1
  /\ Cardinality(InfoRequests) = 2
  /\ Cardinality(AclRequests) = 2

\* C16: a request of the walk that fails, and not because the ACL is not
\* there, makes the walk fail: the walk neither goes on nor returns null.
C16_FailuresPropagate ==
  \A i \in 1..Len(requests) :
    /\ Answered(i)
    /\ \/ /\ IsRequest(i, "getResourceInfo")
          /\ answerFor(requests[i].url).info = "forbidden"
       \/ /\ IsRequest(i, "getSolidDataset")
          /\ answerFor(containerOf(requests[i].url)).acl
               \in {"forbidden", "transport"}
    => /\ i = Len(requests)
       /\ WalkDone("failure")

----------------------------------------------------------------------------
(* acl/acl.ts: creating, saving and deleting the ACL of a Resource *)

\* the change log of a dataset nothing was changed in since it was saved
NoChanges == [additions |-> << >>, deletions |-> << >>]

hasChangelog(dataset) == "internal_changeLog" \in DOMAIN dataset

\* the dataset `dataset` with the change log `changeLog`
withChangeLog(dataset, changeLog) ==
  [internal_accessTo |-> dataset.internal_accessTo,
   sourceIri |-> dataset.sourceIri,
   things |-> dataset.things,
   internal_changeLog |-> changeLog]

createAcl(targetResource) ==
  [internal_accessTo |-> getSourceUrl(targetResource),
   sourceIri |-> targetResource.aclUrl,
   things |-> EmptyThings]

\* createAclFromFallbackAcl that leaves the targets of the Rules it copies
createAclFromFallbackAcl_KeepsTargets(res) ==
  LET emptyResourceAcl == createAcl(res)
      defaultAclRules ==
        internal_getDefaultAclRulesForResource(
          internal_getAclRules(res.fallbackAcl),
          res.fallbackAcl.internal_accessTo)
  IN  [emptyResourceAcl EXCEPT !.things = SeqToThings(defaultAclRules)]

createAclFromFallbackAcl(res) ==
  LET emptyResourceAcl == createAcl(res)
      fallbackAclRules == internal_getAclRules(res.fallbackAcl)
      defaultAclRules ==
        internal_getDefaultAclRulesForResource(
          fallbackAclRules, res.fallbackAcl.internal_accessTo)
      resourceAclRules ==
        [i \in 1..Len(defaultAclRules) |->
           [defaultAclRules[i] EXCEPT !.default = {},
                                      !.defaultForNew = {},
                                      !.accessTo = {getSourceUrl(res)}]]
  IN  [emptyResourceAcl EXCEPT !.things = SeqToThings(resourceAclRules)]

\* resource/solidDataset: what saveSolidDatasetAt sends to `url` for
\* `dataset`, and the dataset it returns when the Pod answers with success
saveSolidDatasetAt(url, dataset) ==
  [request |->
     IF hasChangelog(dataset) /\ getSourceUrl(dataset) = url
       THEN [method |-> "PATCH", url |-> url,
             body |-> dataset.internal_changeLog]
       ELSE [method |-> "PUT", url |-> url,
             body |-> [things |-> dataset.things]],
   savedDataset |-> [withChangeLog(dataset, NoChanges) EXCEPT !.sourceIri = url]]

\* saveAclFor that saves the ACL where the ACL says it comes from
saveAclFor_AtSourceUrl(res, resourceAcl) ==
  LET saved == saveSolidDatasetAt(getSourceUrl(resourceAcl), resourceAcl)
  IN  [request |-> saved.request,
       savedAclDataset |->
         [saved.savedDataset EXCEPT !.internal_accessTo = getSourceUrl(res)]]

\* saveAclFor that leaves the ACL bound to the Resource it was bound to
saveAclFor_KeepsAccessTo(res, resourceAcl) ==
  LET saved == saveSolidDatasetAt(res.aclUrl, resourceAcl)
  IN  [request |-> saved.request, savedAclDataset |-> saved.savedDataset]

saveAclFor(res, resourceAcl) ==
  LET saved == saveSolidDatasetAt(res.aclUrl, resourceAcl)
  IN  [request |-> saved.request,
       savedAclDataset |->
         [saved.savedDataset EXCEPT !.internal_accessTo = getSourceUrl(res)]]

\* what deleteAclFor sends, and the Resource it returns when the Pod answers
\* with success: the Resource it was given, with the property `acl`
deleteAclFor(res) ==
  [request |-> [method |-> "DELETE", url |-> res.aclUrl,
                body |-> [things |-> EmptyThings]],
   storedResource |->
     [field \in DOMAIN res \cup {"acl"} |->
        IF field = "acl" THEN [resourceAcl |-> Null] ELSE res[field]]]

----------------------------------------------------------------------------
(* The ACL of a Resource as a state machine: the Resource at ResourceY,    *)
(* fetched with the ACLs that could be found for it, for which an ACL is   *)
(* created from the fallback ACL, an ACL is saved, or the ACL is deleted;  *)
(* what was saved can be saved again, and the getters are called on the    *)
(* Resource.  `requests` holds what was sent to the Pod.                   *)

\* what the Pod answers to a request that changes it
Statuses == {"ok", "forbidden", "notFound"}

\* the Things of the ACL that is attached as the Resource's own
StoreThings(url) == {thing \in ResolveCoreThings(url) : thing.mode = {"Read"}}

StoreResourceAcls ==
  {[internal_accessTo |-> b[1], sourceIri |-> b[2],
    things |-> SeqToThings(<<thing>>)] :
     b \in {<<ResourceY, ResourceAclUrl>>, <<ResourceX, ResourceAclUrl>>,
            <<ResourceX, ContainerAclUrl>>},
     thing \in StoreThings(ResourceY)}

\* the Resource can have its ACL; both ACLs hold at most MaxRules Things
InitStore ==
  /\ \E n \in 0..1, m \in 0..MaxRules :
       /\ n + m <= MaxRules
       /\ \E resourceAcl \in IF n = 0 THEN {NullAcl} ELSE StoreResourceAcls,
             fallbackAcl \in {NullAcl} \cup FallbackAcls(m) :
            resource = [sourceIri |-> ResourceY, aclUrl |-> ResourceAclUrl,
                        resourceAcl |-> resourceAcl,
                        fallbackAcl |-> fallbackAcl]
  /\ result = NoResult
  /\ acl = EmptyAcl
  /\ prevAcl = EmptyAcl
  /\ lastOp = NoOp
  /\ calls = 0
  /\ NoNetwork

\* the Rule a setter adds to `dataset`, and `dataset` with that Rule added
addedRule(dataset) ==
  [internal_initialiseAclRule([NoAccess EXCEPT !.read = TRUE]) EXCEPT
     !.accessTo = {dataset.internal_accessTo}, !.agentClass = {Public}]

edited(dataset) ==
  withChangeLog([dataset EXCEPT !.things = addThing(@, addedRule(dataset))],
                [additions |-> <<addedRule(dataset)>>, deletions |-> << >>])

\* the ACLs a caller has at hand for the Resource `res`: the ACLs fetched
\* with it and a new ACL, each as it is, after a change, and (the fetched
\* ones) as a save returns them
SaveCandidates(res) ==
  LET fetched == {res.resourceAcl, res.fallbackAcl} \ {NullAcl}
  IN  fetched \cup {createAcl(res)}
        \cup {edited(dataset) : dataset \in fetched \cup {createAcl(res)}}
        \cup {withChangeLog(dataset, NoChanges) : dataset \in fetched}

CreateAclFromFallbackAcl ==
  /\ calls = 0
  /\ hasFallbackAcl(resource)
  /\ acl' = createAclFromFallbackAcl(resource)
  /\ prevAcl' = resource.fallbackAcl
  /\ result' = [name |-> "createAclFromFallbackAcl", group |-> Null,
                returned |-> Return(acl'), status |-> "ok"]
  /\ lastOp' = [NoOp EXCEPT !.name = "createAclFromFallbackAcl"]
  /\ calls' = 1
  /\ UNCHANGED resource
  /\ UNCHANGED netVars

\* saveAclFor(resource, resourceAcl), the Pod answering with `status`
save(resourceAcl, status) ==
  LET saved == saveAclFor(resource, resourceAcl)
  IN  /\ requests' = Append(requests, saved.request)
      /\ prevAcl' = resourceAcl
      /\ acl' = IF status = "ok" THEN saved.savedAclDataset ELSE acl
      /\ result' = [name |-> "saveAclFor", group |-> Null,
                    returned |-> IF status = "ok"
                                   THEN Return(saved.savedAclDataset)
                                   ELSE ReturnNull,
                    status |-> status]
      /\ lastOp' = [NoOp EXCEPT !.name = "saveAclFor"]
      /\ calls' = calls + 1
      /\ UNCHANGED <<resource, accessList, server, walk>>

SaveAclFor(resourceAcl, status) ==
  /\ calls = 0
  /\ resourceAcl \in SaveCandidates(resource)
  /\ save(resourceAcl, status)

\* the ACL that was created, or that the last save returned, is saved
SaveAclForAgain(status) ==
  /\ calls = 1
  /\ result.name \in {"createAclFromFallbackAcl", "saveAclFor"}
  /\ result.status = "ok"
  /\ save(acl, status)

\* deleteAclFor that marks the Resource before it looks at the answer
deleteAclForAnswered_MarksFirst(res, status) ==
  [threw |-> status # "ok", status |-> status,
   resource |-> deleteAclFor(res).storedResource]

\* deleteAclFor once the Pod has answered with `status`: it throws an error
\* with the status, or marks the Resource it was given and returns it
deleteAclForAnswered(res, status) ==
  IF status # "ok"
    THEN [threw |-> TRUE, status |-> status, resource |-> res]
    ELSE [threw |-> FALSE, status |-> status,
          resource |-> deleteAclFor(res).storedResource]

DeleteAclFor(status) ==
  /\ calls = 0
  /\ requests' = Append(requests, deleteAclFor(resource).request)
  /\ resource' = deleteAclForAnswered(resource, status).resource
  /\ result' = [name |-> "deleteAclFor", group |-> Null,
                returned |-> ReturnNull,
                status |-> deleteAclForAnswered(resource, status).status]
  /\ lastOp' = [NoOp EXCEPT !.name = "deleteAclFor"]
  /\ calls' = 1
  /\ UNCHANGED <<acl, prevAcl, accessList, server, walk>>

NextStore ==
  \/ CreateAclFromFallbackAcl
  \/ \E status \in Statuses :
       \E resourceAcl \in SaveCandidates(resource) :
         SaveAclFor(resourceAcl, status)
  \/ \E status \in Statuses : SaveAclForAgain(status)
  \/ \E status \in Statuses : DeleteAclFor(status)
  \/ GetPublicAccess
  \/ \E group \in Iris : GetGroupAccess(group)
  \/ GetGroupAccessAll

SpecStore == InitStore /\ [][NextStore]_vars

----------------------------------------------------------------------------
(* Claims about creating, saving and deleting an ACL *)

\* C17: the ACL that createAclFromFallbackAcl returns for a Resource is bound
\* to the Resource, and the access it gives to every agent, group and agent
\* class for the Resource is the default access the fallback ACL gives them
\* for its Container.
C17_CreateFromFallbackRoundTrip ==
  result.name = "createAclFromFallbackAcl" /\ calls = 1 =>
    /\ acl.internal_accessTo = getSourceUrl(resource)
    /\ getSourceUrl(acl) = resource.aclUrl
    /\ prevAcl = resource.fallbackAcl
    /\ \A selector \in Selectors :
         granteeResourceAccess(acl, selector)
           = granteeDefaultAccess(prevAcl, selector)

C17_Witness ==
  /\ result.name = "createAclFromFallbackAcl"
  /\ calls = 1
  /\ prevAcl.internal_accessTo = ResourceX
  /\ granteeDefaultAccess(prevAcl, PublicSelector)
       = [NoAccess EXCEPT !.read = TRUE]
  /\ granteeResourceAccess(prevAcl, PublicSelector)
       = [NoAccess EXCEPT !.write = TRUE, !.append = TRUE]
  /\ granteeResourceAccess(acl, PublicSelector)
       = [NoAccess EXCEPT !.read = TRUE]

\* the call of saveAclFor that sent the last request got `status`
Saved(status) ==
  /\ result.name = "saveAclFor"
  /\ result.status = status
  /\ requests # << >>

LastRequest == requests[Len(requests)]

C19_SavedAclIsBoundAndClean ==
  Saved("ok") =>
    /\ ~result.returned.null
    /\ acl = result.returned.value
    /\ acl.internal_accessTo = getSourceUrl(resource)
    /\ getSourceUrl(acl) = resource.aclUrl
    /\ hasChangelog(acl)
    /\ acl.internal_changeLog = NoChanges
    /\ acl.things = prevAcl.things
    /\ saveAclFor(resource, acl).request
         = [method |-> "PATCH", url |-> resource.aclUrl, body |-> NoChanges]
    /\ Len(requests) = 2 =>
         /\ LastRequest.method = "PATCH"
         /\ LastRequest.body.additions = << >>
         /\ LastRequest.body.deletions = << >>

C19_Witness ==
  /\ Saved("ok")
  /\ calls = 2
  /\ Len(requests) = 2
  /\ requests[1].method = "PUT"
  /\ requests[1].body.things # EmptyThings
  /\ requests[2] = [method |-> "PATCH", url |-> ResourceAclUrl,
                    body |-> NoChanges]
  /\ acl.internal_accessTo = ResourceY

\* deleteAclFor has returned this Resource
Deleted == "acl" \in DOMAIN resource

\* C20: the Resource that a successful deleteAclFor returns has no resource
\* ACL for hasResourceAcl and getResourceAcl, and the getters answer for it
\* from its fallback ACL, or with null.
C20_DeletedAclIsGone ==
  Deleted =>
    LET withoutResourceAcl == [resource EXCEPT !.resourceAcl = NullAcl]
    IN  /\ ~hasResourceAcl(resource)
        /\ getResourceAcl(resource).null
        /\ result.name = "getPublicAccess" =>
             result.returned = getPublicAccess(withoutResourceAcl)
        /\ result.name = "getGroupAccess" =>
             result.returned = getGroupAccess(withoutResourceAcl, result.group)
        /\ result.name = "getGroupAccessAll" =>
             result.returned = getGroupAccessAll(withoutResourceAcl)

\* an operation that sends a request to the Pod has been called in this step
StoreCall(name) == calls' = calls + 1 /\ result'.name = name

\* C21: when the Pod answers the request of saveAclFor or deleteAclFor with
\* a status that is no success, the call fails with that status, returns
\* nothing, and the Resource and the ACL it was given are as they were:
\* deleteAclFor does not mark the Resource.
C21_FailuresAreSurfaced ==
  [][(StoreCall("saveAclFor") \/ StoreCall("deleteAclFor"))
       /\ result'.status # "ok"
     => /\ result'.status \in {"forbidden", "notFound"}
        /\ Len(requests') = Len(requests) + 1
        /\ result'.returned.null
        /\ resource' = resource
        /\ acl' = acl
        /\ StoreCall("saveAclFor") =>
             prevAcl' \in SaveCandidates(resource) \cup {acl}
        /\ ~Deleted']_vars

C21_Witness ==
  /\ result.name = "deleteAclFor"
  /\ result.status = "forbidden"
  /\ requests = <<[method |-> "DELETE", url |-> ResourceAclUrl,
                   body |-> [things |-> EmptyThings]]>>
  /\ hasResourceAcl(resource)
  /\ ~Deleted

----------------------------------------------------------------------------
(* Which dataset object a function writes to.  `dataset` is what the      *)
(* object at hand holds, `object` says whether that object is the one the  *)
(* caller gave or a new one, and `given` is what the object the caller     *)
(* gave holds by now.                                                      *)

callerGave(dataset) ==
  [given |-> dataset, object |-> "given", dataset |-> dataset]

\* thing/thing: setThing and removeThing return a new dataset that holds
\* `things`, and leave the dataset they are given as it is
libraryCall(at, things) ==
  [given |-> at.given, object |-> "new",
   dataset |-> [at.dataset EXCEPT !.things = things]]

RECURSIVE reduceRemoveThingAt(_, _)
reduceRemoveThingAt(aclRulesToRemove, at) ==
  IF aclRulesToRemove = << >> THEN at
  ELSE reduceRemoveThingAt(
         Tail(aclRulesToRemove),
         libraryCall(at, removeThing(at.dataset.things,
                                     Head(aclRulesToRemove))))

\* internal_removeEmptyAclRules that assigns what is left to its argument
removeEmptyAclRulesAt_AssignsToInput(at) ==
  LET updated == internal_removeEmptyAclRules(at.dataset)
  IN  [given |-> IF at.object = "given" THEN updated ELSE at.given,
       object |-> at.object, dataset |-> updated]

\* internal_removeEmptyAclRules: the reduction starts from its argument
removeEmptyAclRulesAt(at) ==
  reduceRemoveThingAt(
    SelectSeq(internal_getAclRules(at.dataset), isEmptyAclRule), at)

\* a setter: two calls of setThing for each Thing of the dataset, a call of
\* setThing for the new Rule, and internal_removeEmptyAclRules
setterAt(at, filteredThings, newRule) ==
  LET filteredAcl ==
        IF getThingAll(at.dataset) = << >> THEN at
        ELSE libraryCall(at, filteredThings)
      updatedAcl ==
        libraryCall(filteredAcl, addThing(filteredAcl.dataset.things, newRule))
  IN  removeEmptyAclRulesAt(updatedAcl)

applySetterAt(op, at) ==
  LET aclDataset == at.dataset
      resourceIri == aclDataset.internal_accessTo
      things == getThingAll(aclDataset)
      newRule == internal_initialiseAclRule(op.access)
  IN  CASE op.name = "setPublicResourceAccess" ->
             setterAt(at,
                      filterPublicRules(things, aclDataset.things,
                                        resourceIri, "resource"),
                      [newRule EXCEPT !.accessTo = {resourceIri},
                                      !.agentClass = {Public}])
        [] op.name = "setPublicDefaultAccess" ->
             setterAt(at,
                      filterPublicRules(things, aclDataset.things,
                                        resourceIri, "default"),
                      [newRule EXCEPT !.default = {resourceIri},
                                      !.agentClass = {Public}])
        [] op.name = "setGroupResourceAccess" ->
             setterAt(at,
                      filterGroupRules(things, aclDataset.things, op.group,
                                       resourceIri, "resource"),
                      [newRule EXCEPT !.accessTo = {resourceIri},
                                      !.agentGroup = {op.group}])

RECURSIVE reduceSetThingAt(_, _)
reduceSetThingAt(rules, at) ==
  IF rules = << >> THEN at
  ELSE reduceSetThingAt(Tail(rules),
                        libraryCall(at, addThing(at.dataset.things,
                                                 Head(rules))))

\* createAclFromFallbackAcl: the Rules are put, one by one, into the dataset
\* that createAcl made; the caller gave the fallback ACL of `res`
createAclFromFallbackAclAt(res) ==
  LET emptyResourceAcl ==
        [given |-> res.fallbackAcl, object |-> "new",
         dataset |-> createAcl(res)]
  IN  reduceSetThingAt(getThingAll(createAclFromFallbackAcl(res)),
                       emptyResourceAcl)

\* the Resource whose fallback ACL is `fallbackAcl`
withFallbackAcl(fallbackAcl) ==
  [NoResource EXCEPT !.aclUrl = ResourceAclUrl, !.fallbackAcl = fallbackAcl]

----------------------------------------------------------------------------
(* internal_removeEmptyAclRules as a state machine: it is called on an ACL *)
(* dataset bound to ResourceX, and on what it returned.                    *)

\* the Things of the datasets that hold one Thing: a subject with or without
\* the type Authorization and with or without other statements, with any
\* target, anyone or no one it applies to, an origin or none, a mode or none
CollectableThings ==
  [isAuthorization : BOOLEAN, otherQuads : BOOLEAN,
   accessTo : {{}, {ResourceX}},
   default : {{}, {ResourceX}},
   defaultForNew : {{}, {ResourceY}},
   agent : {{}, {"i1"}},
   agentGroup : {{}, {"i2"}},
   agentClass : {{}, {Public}},
   origin : {{}} \cup {{o} : o \in Origins},
   mode : {{}, {"Read"}}]

\* the Things of the datasets that hold several Things
CollectableCoreThings ==
  {thing \in CollectableThings :
     /\ thing.isAuthorization
     /\ thing.default = {} /\ thing.defaultForNew = {}
     /\ thing.agent = {} /\ thing.agentClass = {}
     /\ thing.origin = {} => thing.agentGroup # {}}

InitCollect ==
  /\ \E s \in [1..1 -> CollectableThings]
            \cup UNION {[1..n -> CollectableCoreThings] : n \in 0..MaxRules} :
       acl = [internal_accessTo |-> ResourceX, sourceIri |-> ContainerAclUrl,
              things |-> SeqToThings(s)]
  /\ prevAcl = acl
  /\ lastOp = NoOp
  /\ calls = 0
  /\ resource = NoResource
  /\ result = NoResult
  /\ NoNetwork

RemoveEmptyAclRules ==
  /\ calls < 2
  /\ acl' = internal_removeEmptyAclRules(acl)
  /\ prevAcl' = acl
  /\ lastOp' = [NoOp EXCEPT !.name = "internal_removeEmptyAclRules"]
  /\ calls' = calls + 1
  /\ UNCHANGED <<resource, result>>
  /\ UNCHANGED netVars

NextCollect == RemoveEmptyAclRules

SpecCollect == InitCollect /\ [][NextCollect]_vars

\* the subjects that the criterion of garbage collection names
Ineffective(thing) ==
  /\ thing.isAuthorization
  /\ ~thing.otherQuads
  /\ \/ thing.accessTo \cup thing.default \cup thing.defaultForNew = {}
     \/ thing.mode = {}
     \/ thing.agent \cup thing.agentGroup \cup thing.agentClass = {}

\* C23: internal_removeEmptyAclRules removes the Authorizations that have
\* only ACL statements and no target, no mode, or no agent, group or class
\* (an origin is none of these), and nothing else; every other subject keeps
\* its statements, and every agent, group and class has the access it had.
C23_GarbageCollection ==
  Called("internal_removeEmptyAclRules") =>
    /\ DOMAIN acl.things \subseteq DOMAIN prevAcl.things
    /\ \A thing \in DOMAIN prevAcl.things :
         IF Ineffective(thing)
           THEN thing \notin DOMAIN acl.things
           ELSE /\ thing \in DOMAIN acl.things
                /\ acl.things[thing] = prevAcl.things[thing]
    /\ acl.internal_accessTo = prevAcl.internal_accessTo
    /\ SameAccessFor(Selectors, acl, prevAcl)

C23_Witness ==
  /\ Called("internal_removeEmptyAclRules")
  /\ calls = 1
  /\ acl.things = EmptyThings
  /\ \E thing \in DOMAIN prevAcl.things :
       /\ thing.origin # {}
       /\ thing.accessTo = {ResourceX}
       /\ thing.mode = {"Read"}
       /\ thing.agent \cup thing.agentGroup \cup thing.agentClass = {}

----------------------------------------------------------------------------
(* Calls under way at the same time: two calls of internal_fetchFallbackAcl *)
(* for two Resources of one Pod, and a call of deleteAclFor for a Resource  *)
(* elsewhere.  `walk` holds, for each of the two calls, where it is and the *)
(* requests it has sent; `requests` holds the requests in the order in      *)
(* which the Pod got them.                                                  *)

\* the Resources the two calls are for
ConcurrentPaths ==
  {RootPath, <<"/", "a">>, <<"/", "a", "/">>, <<"/", "a", "/", "a">>}

Callers == {1, 2}

startedCall(resourcePath) == [call |-> ReadyWalk(resourcePath), sent |-> << >>]

\* the Resource whose ACL is deleted meanwhile
ElsewhereResource ==
  [sourceIri |-> ResourceY, aclUrl |-> ResourceAclUrl,
   resourceAcl |-> [internal_accessTo |-> ResourceY,
                    sourceIri |-> ResourceAclUrl, things |-> EmptyThings],
   fallbackAcl |-> NullAcl]

\* one step of a call of internal_fetchFallbackAcl: up to its next request,
\* or to its end
step(own) ==
  LET last == own.sent[Len(own.sent)]
      next ==
        CASE own.call.pc = "ready" ->
               internal_fetchFallbackAcl(own.call, own.call.resourcePath,
                                         own.sent)
          [] own.call.pc = "getResourceInfo" ->
               afterGetResourceInfo(own.call, getResourceInfo(last.url),
                                    own.sent)
          [] own.call.pc = "fetchResourceAcl" ->
               afterFetchResourceAcl(
                 own.call,
                 internal_fetchResourceAcl(own.call.containerInfo,
                                           getSolidDataset(last.url)),
                 own.sent)
  IN  [call |-> next.walk, sent |-> next.requests]

\* a call that works on what the first call holds
stateOf_Shared(caller) == walk[1]

\* what a call works on: its own parameters and local variables
stateOf(caller) == walk[caller]

InitConcurrent ==
  /\ \E first \in ConcurrentPaths, second \in ConcurrentPaths :
       /\ first # second
       /\ walk = <<startedCall(first), startedCall(second)>>
       /\ server \in [Ancestors(first) \cup Ancestors(second) -> Answers]
  /\ requests = NoRequests
  /\ accessList = NoModes
  /\ result = NoResult
  /\ acl = EmptyAcl
  /\ prevAcl = EmptyAcl
  /\ lastOp = NoOp
  /\ calls = 0
  /\ resource = ElsewhereResource

\* what the Pod gets when a call goes from `own` to `next`
received(own, next) ==
  IF Len(next.sent) > Len(own.sent)
    THEN Append(requests, next.sent[Len(next.sent)])
    ELSE requests

\* a call starts: up to its first request, or to its end at the root
FetchFallbackAclOf(caller) ==
  /\ walk[caller].call.pc = "ready"
  /\ walk' = [walk EXCEPT ![caller] = step(stateOf(caller))]
  /\ requests' = received(walk[caller], step(stateOf(caller)))
  /\ UNCHANGED <<server, accessList, result, acl, prevAcl, lastOp, calls,
                 resource>>

\* the answer to a call's getResourceInfo arrives
ContainerInfoResponseOf(caller) ==
  /\ walk[caller].call.pc = "getResourceInfo"
  /\ Len(walk[caller].sent) < 2 * MaxPathLen
  /\ walk' = [walk EXCEPT ![caller] = step(stateOf(caller))]
  /\ requests' = received(walk[caller], step(stateOf(caller)))
  /\ UNCHANGED <<server, accessList, result, acl, prevAcl, lastOp, calls,
                 resource>>

\* the answer to a call's request for the container's ACL arrives
ContainerAclResponseOf(caller) ==
  /\ walk[caller].call.pc = "fetchResourceAcl"
  /\ Len(walk[caller].sent) < 2 * MaxPathLen
  /\ walk' = [walk EXCEPT ![caller] = step(stateOf(caller))]
  /\ requests' = received(walk[caller], step(stateOf(caller)))
  /\ UNCHANGED <<server, accessList, result, acl, prevAcl, lastOp, calls,
                 resource>>

NextConcurrent ==
  \/ \E caller \in Callers : FetchFallbackAclOf(caller)
  \/ \E caller \in Callers : ContainerInfoResponseOf(caller)
  \/ \E caller \in Callers : ContainerAclResponseOf(caller)
  \/ \E status \in Statuses : DeleteAclFor(status)

SpecConcurrent == InitConcurrent /\ [][NextConcurrent]_vars

\* the call for the Resource at `resourcePath`, run to its end with no other
\* call under way
RECURSIVE runAlone(_)
runAlone(own) == IF own.call.pc = "done" THEN own ELSE runAlone(step(own))

alone(resourcePath) == runAlone(startedCall(resourcePath))

IsPrefix(s, t) == Len(s) <= Len(t) /\ s = SubSeq(t, 1, Len(s))

----------------------------------------------------------------------------
(* The order of the requests of the fallback walk.                          *)

\* the Containers above the walk's Resource that are nearer to it than `url`
NearerAncestors(url) ==
  {a \in Ancestors(walk.resourcePath) : Len(a) > Len(url)}

\* The requests come in pairs, one pair for each level, nearest Container
\* first: the request for the Container's metadata and then, where it has
\* advertised an ACL, the request for that ACL; a pair follows another only
\* where the ACL of the nearer Container got one of the answers
\* `absentAnswers`; nothing follows a request whose answer ends the walk.
walkInOrder(absentAnswers) ==
  \A i \in 1..Len(requests) :
    /\ IsRequest(i, "getResourceInfo") <=> i % 2 = 1
    /\ IsRequest(i, "getResourceInfo") =>
         /\ requests[i].url \in Ancestors(walk.resourcePath)
         /\ Cardinality(NearerAncestors(requests[i].url)) = (i - 1) \div 2
         /\ i > 1 =>
              /\ IsRequest(i - 1, "getSolidDataset")
              /\ answerFor(containerOf(requests[i - 1].url)).acl
                   \in absentAnswers
    /\ IsRequest(i, "getSolidDataset") =>
         /\ IsRequest(i - 1, "getResourceInfo")
         /\ requests[i].url = aclUrlOf(requests[i - 1].url)
         /\ answerFor(requests[i - 1].url).info = "pointer"
    /\ walk.pc = "done" /\ i = Len(requests) =>
         \/ /\ IsRequest(i, "getResourceInfo")
            /\ answerFor(requests[i].url).info # "pointer"
         \/ /\ IsRequest(i, "getSolidDataset")
            /\ \/ answerFor(containerOf(requests[i].url)).acl = "exists"
               \/ requests[i - 1].url = RootPath

\* C25: the metadata request of a level comes before its ACL request, the
\* next higher level is asked only after the ACL of the nearer level was
\* answered "not found", the levels are taken from the nearest upwards, none
\* skipped or repeated, and no request follows the answer that ends the walk.
C25_WalkOrder == walkInOrder({"notFound"})

\* the same order, where the walk goes up after any ACL request that gave no
\* ACL
WalkOrderAfterNull == walkInOrder({"notFound", "forbidden", "transport"})

----------------------------------------------------------------------------
(* Path arithmetic: the Container that the walk asks for at each level.     *)

\* the path from which the Container of the metadata request `i` was got
containedPath(i) == IF i = 1 THEN walk.resourcePath ELSE requests[i - 2].url

\* `path` up to where its last non-empty segment starts
withoutLastNonEmptySegment(path) ==
  LET start == CHOOSE i \in NonEmptySegments(path) :
                 \A j \in NonEmptySegments(path) : j <= i
  IN  SubSeq(path, 1, start - 1)

\* `path` with the slash at its end dropped, if there is one, and then all
\* that follows the last slash that is left
withoutLastSegment(path) ==
  CHOOSE prefix \in Ancestors(path) :
    \A other \in Ancestors(path) : Len(other) <= Len(prefix)

endsInSlash(path) == Len(path) >= 1 /\ path[Len(path)] = "/"

isProperPrefix(prefix, path) ==
  Len(prefix) < Len(path) /\ prefix = SubSeq(path, 1, Len(prefix))

\* the paths that the claim names
namedPathsHold ==
  /\ internal_getContainerPath(<<"/", "a", "/", "b", "/">>)
       = <<"/", "a", "/">>
  /\ internal_getContainerPath(<<"/", "a", "/", "b", "/", "c">>)
       = <<"/", "a", "/", "b", "/">>
  /\ internal_getContainerPath(<<"/", "a">>) = RootPath
  /\ internal_getContainerPath(<<"/", "a", "/">>) = RootPath

----------------------------------------------------------------------------
(* The attached ACL that counts as the Resource's own.                      *)

\* an ACL is attached as the Resource's own, it is bound to the Resource, and
\* it was got from the URL that the Resource gives for its ACL
OwnAclMatches ==
  /\ resource.resourceAcl # NullAcl
  /\ resource.resourceAcl.internal_accessTo = resource.sourceIri
  /\ resource.resourceAcl.sourceIri = resource.aclUrl

\* what a getter returns: `own` read from the Resource's own ACL where that
\* ACL matches, else `inherited` read from the fallback ACL, else null
resolved(own(_), inherited(_)) ==
  IF OwnAclMatches THEN Return(own(resource.resourceAcl))
  ELSE IF resource.fallbackAcl # NullAcl
    THEN Return(inherited(resource.fallbackAcl))
  ELSE ReturnNull

\* C27: hasResourceAcl holds exactly when the attached own ACL is not null,
\* is bound to the Resource's URL and comes from the Resource's ACL URL;
\* getResourceAcl returns that ACL exactly then and null otherwise; the
\* getters read the own ACL exactly then and otherwise the fallback ACL, or
\* return null.
C27_OwnAclMustMatch ==
  /\ hasResourceAcl(resource) <=> OwnAclMatches
  /\ getResourceAcl(resource)
       = IF OwnAclMatches THEN Return(resource.resourceAcl) ELSE ReturnNull
  /\ result.name = "getPublicAccess" =>
       result.returned
         = resolved(getPublicResourceAccess, getPublicDefaultAccess)
  /\ result.name = "getGroupAccess" =>
       LET own(aclDataset) == getGroupResourceAccess(aclDataset, result.group)
           inherited(aclDataset) ==
             getGroupDefaultAccess(aclDataset, result.group)
       IN  result.returned = resolved(own, inherited)
  /\ result.name = "getGroupAccessAll" =>
       result.returned
         = resolved(getGroupResourceAccessAll, getGroupDefaultAccessAll)

C27_Witness ==
  /\ resource.resourceAcl # NullAcl
  /\ resource.resourceAcl.internal_accessTo = ResourceX
  /\ resource.sourceIri = ResourceY
  /\ resource.resourceAcl.sourceIri = resource.aclUrl
  /\ resource.fallbackAcl # NullAcl
  /\ result.name = "getPublicAccess"
  /\ getResourceAcl(resource) = ReturnNull
  /\ result.returned = Return(getPublicDefaultAccess(resource.fallbackAcl))
  /\ getPublicResourceAccess(resource.resourceAcl) # result.returned.value

----------------------------------------------------------------------------
(* The maps from groups to their access.                                    *)

\* `map` has a key for each group that a Rule of `aclDataset` in `scope`
\* names as agent group, and for nothing else; the value is `single(g)`
isGroupMapOf(map, aclDataset, scope, single(_)) ==
  /\ DOMAIN map = UNION {t.agentGroup : t \in RulesInScope(aclDataset, scope)}
  /\ \A g \in DOMAIN map : map[g] = single(g)
  /\ \A t \in DOMAIN aclDataset.things :
       \A iri \in (t.agent \cup t.agentClass) \cap DOMAIN map :
         \E other \in RulesInScope(aclDataset, scope) : iri \in other.agentGroup

\* C28: getGroupResourceAccessAll and getGroupDefaultAccessAll return a map
\* whose keys are exactly the groups named as agent group by a Rule that is
\* in that scope for the Resource the ACL is bound to, and whose value for a
\* group is what getGroupResourceAccess or getGroupDefaultAccess returns for
\* it; an agent or an agent class is never a key.
C28_GroupMaps ==
  /\ \A aclDataset \in AttachedAcls :
       /\ LET single(g) == getGroupResourceAccess(aclDataset, g)
          IN  isGroupMapOf(getGroupResourceAccessAll(aclDataset), aclDataset,
                           "resource", single)
       /\ LET single(g) == getGroupDefaultAccess(aclDataset, g)
          IN  isGroupMapOf(getGroupDefaultAccessAll(aclDataset), aclDataset,
                           "default", single)
  /\ Returned("getGroupAccessAll") =>
       LET single(g) == getGroupAccess(resource, g).value
       IN  isGroupMapOf(result.returned.value, Governing, GoverningScope,
                        single)

C28_Witness ==
  /\ Returned("getGroupAccessAll")
  /\ hasResourceAcl(resource)
  /\ DOMAIN result.returned.value = {"i1"}
  /\ result.returned.value["i1"]
       = [NoAccess EXCEPT !.read = TRUE, !.control = TRUE]
  /\ \E t \in DOMAIN resource.resourceAcl.things :
       /\ t.agent = {"i2"}
       /\ t.agentClass = {AuthenticatedAgent}
       /\ ResourceY \in t.accessTo

----------------------------------------------------------------------------
(* The Rule that governs the grantee after a setter.                        *)

\* what the last setter was called for
SetScope == IF lastOp.name = "setPublicDefaultAccess" THEN "default"
            ELSE "resource"
SetKind == IF lastOp.name = "setGroupResourceAccess" THEN "agentGroup"
           ELSE "agentClass"
SetGrantee == IF lastOp.name = "setGroupResourceAccess" THEN lastOp.group
              ELSE Public

\* the Authorizations of the result that name the grantee that was set and
\* apply, in the scope that was set, to the Resource the ACL is bound to
governs(thing) ==
  thing \in RulesInScope(acl, SetScope) /\ SetGrantee \in thing[SetKind]

\* the Rule that the setter builds
isNewRule(thing) ==
  /\ thing.isAuthorization /\ ~thing.otherQuads
  /\ thing[SetKind] = {SetGrantee}
  /\ thing.agent \cup thing.agentGroup \cup thing.agentClass = {SetGrantee}
  /\ thing.origin = {}
  /\ thing.accessTo
       = (IF SetScope = "resource" THEN {acl.internal_accessTo} ELSE {})
  /\ thing.default
       = (IF SetScope = "default" THEN {acl.internal_accessTo} ELSE {})
  /\ thing.defaultForNew = {}
  /\ GrantedBy({thing}, SetKind, SetGrantee) = Normalise(lastOp.access)

oneGoverningRule ==
  /\ Normalise(lastOp.access) # NoAccess =>
       /\ Len(SelectSeq(getThingAll(acl), governs)) = 1
       /\ \A thing \in DOMAIN acl.things : governs(thing) => isNewRule(thing)
  /\ Normalise(lastOp.access) = NoAccess =>
       \A thing \in DOMAIN acl.things : ~governs(thing)
  /\ \A thing \in DOMAIN acl.things : ~Ineffective(thing)

\* C29: in the result of a setter called with some Access Mode, exactly one
\* Authorization names the grantee that was set and applies in the scope that
\* was set to the Resource the ACL is bound to, and it is the new Rule with
\* just the Access Modes given; called with no Access Mode, there is none;
\* no Authorization of ACL statements only is left without a target, a mode
\* or a grantee.
C29_OneGoverningRule == calls >= 1 => oneGoverningRule

\* the same for the ACLs that the setter was given without acl:defaultForNew
OneGoverningRuleWithoutDefaultForNew ==
  (calls >= 1 /\ \A thing \in DOMAIN prevAcl.things : thing.defaultForNew = {})
    => oneGoverningRule

----------------------------------------------------------------------------
(* The grants of an ACL before and after a setter.                          *)

GranteeKinds == {"agent", "agentGroup", "agentClass", "origin"}
TargetKinds == {"accessTo", "default", "defaultForNew"}

\* <<kind of grantee, grantee, kind of target, target, Access Mode>> for all
\* that the Authorizations of `aclDataset` grant
GrantsOf(aclDataset) ==
  UNION {{<<g, iri, s, url, mode>> :
            iri \in thing[g], url \in thing[s], mode \in thing.mode} :
           thing \in {t \in DOMAIN aclDataset.things : t.isAuthorization},
           g \in GranteeKinds, s \in TargetKinds}

\* what the Rule that the last setter built grants
GrantsOfNewRule ==
  {<<SetKind, SetGrantee,
     IF SetScope = "resource" THEN "accessTo" ELSE "default",
     acl.internal_accessTo, mode>> :
     mode \in internal_initialiseAclRule(lastOp.access).mode}

\* C30: all that an Authorization of the result of a setter grants, but for
\* the grants of the new Rule, an Authorization of the ACL the setter was
\* given granted already: a subject that is no Authorization gives no access
\* in the result, and the grant of a group is not handed to an agent or class.
C30_NoNewGrants ==
  calls >= 1 => GrantsOf(acl) \ GrantsOfNewRule \subseteq GrantsOf(prevAcl)

\* the same for the public setters and the ACLs of Authorizations only
NoNewGrantsFromRules ==
  (calls >= 1 /\ lastOp.name # "setGroupResourceAccess" /\ CalledOnRules) =>
    GrantsOf(acl) \ GrantsOfNewRule \subseteq GrantsOf(prevAcl)

============================================================================
